---- MODULE Spec2Model ----
(***************************************************************************)
(* stac-asset: the download batch of src/stac_asset/_functions.py.         *)
(*                                                                         *)
(* A batch (class Downloads) is constructed from a Config, owners (items   *)
(* or a collection) are added to it, which registers one Download per      *)
(* in-scope asset, and Downloads.download runs one asyncio task per        *)
(* registered download under a semaphore.  The model follows the main      *)
(* coroutine (pc) and every task (st) from one suspension point to the     *)
(* next.  Hrefs, keys and paths are sequences of one-character strings so  *)
(* that file names are computed the way the code computes them.            *)
(***************************************************************************)
EXTENDS Integers, Sequences, FiniteSets, TLC

\* ------------------------------------------------------------------ bounds
\* Largest max_concurrent_downloads a batch is created with.
MaxConcurrent == 2
\* Number of concurrent get_client requests made to one registry.
MaxRequests == 3
\* Number of chunks a backend yields for one href before it is exhausted.
NumChunks == 2
\* Largest number of items in an item collection.
MaxItems == 2

\* ------------------------------------------------------- strings and paths
Max(S) == CHOOSE m \in S : \A n \in S : n <= m
Min(S) == CHOOSE m \in S : \A n \in S : m <= n

None == <<>>

\* os.path.basename / PurePath.name: what follows the last "/".
Basename(p) ==
    LET slashes == {i \in 1..Len(p) : p[i] = "/"}
        last == IF slashes = {} THEN 0 ELSE Max(slashes)
    IN  SubSeq(p, last + 1, Len(p))

\* os.path.dirname: what precedes the last "/".
Dirname(p) ==
    LET slashes == {i \in 1..Len(p) : p[i] = "/"}
        last == IF slashes = {} THEN 0 ELSE Max(slashes)
    IN  IF last <= 1 THEN SubSeq(p, 1, last) ELSE SubSeq(p, 1, last - 1)

\* PurePath.suffix: the name from its last "." on, unless the name starts
\* or ends with that dot.
Suffix(p) ==
    LET name == Basename(p)
        dots == {i \in 1..Len(name) : name[i] = "."}
        last == IF dots = {} THEN 0 ELSE Max(dots)
    IN  IF 1 < last /\ last < Len(name) THEN SubSeq(name, last, Len(name)) ELSE <<>>

\* Path(root) / name
JoinPath(root, name) == IF name = <<>> THEN root ELSE root \o <<"/">> \o name

\* Where "://" starts in an href, or 0.
SchemeEnd(h) ==
    LET at == {i \in 1..(Len(h) - 2) : SubSeq(h, i, i + 2) = <<":", "/", "/">>}
    IN  IF at = {} THEN 0 ELSE Min(at)

\* URL(href).scheme
Scheme(h) == IF SchemeEnd(h) = 0 THEN <<>> ELSE SubSeq(h, 1, SchemeEnd(h) - 1)

\* URL(href).host: what is between "://" and the next "/".
Host(h) ==
    IF SchemeEnd(h) = 0 THEN <<>>
    ELSE LET rest == SubSeq(h, SchemeEnd(h) + 3, Len(h))
             slashes == {i \in 1..Len(rest) : rest[i] = "/"}
         IN  IF slashes = {} THEN rest ELSE SubSeq(rest, 1, Min(slashes) - 1)

\* str.endswith
EndsWith(h, suffix) ==
    Len(suffix) <= Len(h) /\ SubSeq(h, Len(h) - Len(suffix) + 1, Len(h)) = suffix

\* pystac.utils.is_absolute_href: the href has a scheme or os.path.isabs.
IsAbsoluteHref(h) == Scheme(h) # <<>> \/ (Len(h) > 0 /\ h[1] = "/")

\* pystac.utils.make_absolute_href(href, start_href).
MakeAbsoluteHref(h, start) ==
    IF IsAbsoluteHref(h) THEN h ELSE JoinPath(Dirname(start), h)

\* ------------------------------------------------------------- the inputs
Ka == <<"a">>
Kb == <<"b">>
Kc == <<"c">>
Kax == <<"a", ".", "x">>

HrefSF == <<"/", "s", "/", "f", ".", "x">>
HrefTF == <<"/", "t", "/", "f", ".", "x">>
HrefSG == <<"/", "s", "/", "g">>
HrefRel == <<"h", ".", "x">>
SelfHref == <<"/", "m", "/", "i">>
HrefS3 == <<"s", "3", ":", "/", "/", "b", "/", "k">>
HrefHttps == <<"h", "t", "t", "p", "s", ":", "/", "/", "e", "/", "k">>
HrefGs == <<"g", "s", ":", "/", "/", "b", "/", "k">>

\* asset.extra_fields without an "alternate" dictionary.
NoAlternate == <<>>

\* The destination directories a caller passes: an absolute and a relative one.
Directory == <<"/", "d">>
RelDirectory == <<"r">>
Directories == {Directory, RelDirectory}

\* Items as the caller hands them over: id, self href and the ordered mapping
\* of asset keys to hrefs.
ItemOne ==
    [id |-> <<"i", "1">>, self_href |-> SelfHref,
     assets |-> <<[key |-> Ka, href |-> HrefSF, alternate |-> NoAlternate]>>]
ItemTwin ==
    [id |-> <<"i", "1">>, self_href |-> SelfHref,
     assets |-> <<[key |-> Ka, href |-> HrefTF, alternate |-> NoAlternate]>>]
ItemOther ==
    [id |-> <<"i", "2">>, self_href |-> SelfHref,
     assets |-> <<[key |-> Ka, href |-> HrefSF, alternate |-> NoAlternate]>>]
ItemRel ==
    [id |-> <<"i", "3">>, self_href |-> SelfHref,
     assets |-> <<[key |-> Ka, href |-> HrefRel, alternate |-> NoAlternate]>>]
ItemSameName ==
    [id |-> <<"i", "1">>, self_href |-> SelfHref,
     assets |-> <<[key |-> Ka, href |-> HrefSF, alternate |-> NoAlternate],
                 [key |-> Kb, href |-> HrefTF, alternate |-> NoAlternate]>>]
ItemKeyClash ==
    [id |-> <<"i", "1">>, self_href |-> SelfHref,
     assets |-> <<[key |-> Ka, href |-> HrefSF, alternate |-> NoAlternate],
                 [key |-> Kax, href |-> HrefSG, alternate |-> NoAlternate]>>]
ItemThree ==
    [id |-> <<"i", "1">>, self_href |-> SelfHref,
     assets |-> <<[key |-> Ka, href |-> HrefSF, alternate |-> NoAlternate],
                 [key |-> Kb, href |-> HrefSG, alternate |-> NoAlternate],
                 [key |-> Kc, href |-> HrefRel, alternate |-> NoAlternate]>>]

\* An item without self href whose second asset has a relative href.
ItemNoBase ==
    [id |-> <<"i", "4">>, self_href |-> None,
     assets |-> <<[key |-> Ka, href |-> HrefSF, alternate |-> NoAlternate],
                 [key |-> Kb, href |-> HrefRel, alternate |-> NoAlternate]>>]
\* An item whose asset has two well-formed alternates, and one whose asset's
\* "s3" alternate lacks its href.
ItemAlt ==
    [id |-> <<"i", "1">>, self_href |-> SelfHref,
     assets |-> <<[key |-> Ka, href |-> HrefSF,
                   alternate |-> [s3 |-> [href |-> HrefS3],
                                  https |-> [href |-> HrefHttps]]]>>]
ItemAltBad ==
    [id |-> <<"i", "1">>, self_href |-> SelfHref,
     assets |-> <<[key |-> Ka, href |-> HrefSF,
                   alternate |-> [s3 |-> [title |-> <<"t">>],
                                  https |-> [href |-> HrefHttps]]]>>]
AlternateItems == {ItemAlt, ItemAltBad}

SingleItems ==
    {ItemOne, ItemSameName, ItemKeyClash, ItemThree, ItemNoBase} \cup AlternateItems
CollectionItems == <<ItemOne, ItemTwin, ItemOther, ItemRel>>

\* The members of a set of positions, in ascending order.
Ascending(S) ==
    [j \in 1..Cardinality(S) |-> CHOOSE x \in S : Cardinality({y \in S : y <= x}) = j]

\* The item collections: up to MaxItems different items of CollectionItems.
Collections ==
    {[j \in 1..Cardinality(S) |-> CollectionItems[Ascending(S)[j]]] :
        S \in {T \in SUBSET (1..Len(CollectionItems)) :
                  1 <= Cardinality(T) /\ Cardinality(T) <= MaxItems}}

\* What a caller passes to download_item / download_item_collection.
Calls ==
    [entry : {"download_item"}, items : {<<it>> : it \in SingleItems},
     directory : Directories, keep_non_downloaded : BOOLEAN,
     file_name : {None}, max_concurrent_downloads : 1..MaxConcurrent]
    \cup
    [entry : {"download_item_collection"}, items : Collections,
     directory : Directories, keep_non_downloaded : BOOLEAN,
     file_name : {None}, max_concurrent_downloads : 1..MaxConcurrent]

\* Values of Config.alternate_assets: names of alternates, most wanted first.
AlternateLists == {<<>>, <<"s3">>, <<"https", "s3">>, <<"gs", "s3">>, <<"gs">>}

\* config.py: the fields of Config the batch reads.
Configs ==
    [warn : BOOLEAN, fail_fast : BOOLEAN, error_strategy : {"DELETE", "KEEP"},
     clean : BOOLEAN, overwrite : BOOLEAN, file_name_strategy : {"FILE_NAME", "KEY"},
     include : {{}, {Ka}}, exclude : {{}, {Kb}}, alternate_assets : AlternateLists,
     make_directory : {TRUE}]

\* Destination files that may exist before the batch runs.
OldContent == << <<"old", <<>>, 0>> >>
PreExisting(call) ==
    IF call.entry = "download_item"
    THEN {<<>>, JoinPath(call.directory, Basename(HrefSF)) :> OldContent}
    ELSE {<<>>, JoinPath(JoinPath(call.directory, ItemOne.id), Basename(HrefSF)) :> OldContent}

\* ---------------------------------------------------------------- state
VARIABLES
    config,      \* the Config of the batch
    call,        \* the arguments of the entry point
    pc,          \* where the entry point's coroutine is
    outcome,     \* how the entry point ended: returned, or the exception raised
    owners,      \* the owners added so far: id, self href, key -> asset href
    downloads,   \* Downloads.downloads: the registered Download records
    sem,         \* Semaphore._value
    st,          \* st[i]: where the task of downloads[i] is
    written,     \* written[i]: chunks task i has written to its open file handle
    linked,      \* linked[i]: task i holds open the file that is at its path
    cancelReq,   \* cancelReq[i]: Task.cancel() was called and not yet delivered
    gatherExc,   \* the task whose exception asyncio.gather propagated, or 0
    files,       \* the destination file system: path -> content
    opens,       \* opens[i]: backend open calls task i has made
    warned,      \* the downloads a DownloadWarning was emitted for
    messages,    \* the progress queue: whether one was passed, its maxsize
                 \* (0: none), and what each task has put on it, in the
                 \* order of its puts; nothing is taken from it
    dirs         \* the directories that exist

vars == <<config, call, pc, outcome, owners, downloads, sem, st, written, linked,
          cancelReq, gatherExc, files, opens, warned, messages, dirs>>

NoOutcome == [kind |-> "none"]

\* messages=None, the default of every entry point.
NoChannel == [given |-> FALSE, maxsize |-> 0, put |-> <<>>]

\* A directory path and the directories above it.
Ancestors(p) ==
    {SubSeq(p, 1, k) : k \in {j \in 1..Len(p) : j = Len(p) \/ p[j + 1] = "/"}}

\* The directories of the files that exist.
Existing(fs) == UNION {Ancestors(Dirname(p)) : p \in DOMAIN fs}

\* The registry of backend instances (Clients) of the batch.
VARIABLES
    lock,        \* the request that holds the registry's lock, or 0
    clients,     \* the cache: backend class -> instance
    instances,   \* instances[n]: the class of the n-th instance constructed
    req,         \* req[r]: the href, position and result of request r
    closed,      \* closed[n]: the close() calls made on the n-th instance
    teardown     \* where the closing of the registry is

regVars == <<lock, clients, instances, req, closed, teardown>>

\* The registry's instances are not being closed.
NotClosing == [pc |-> "open", at |-> 0]

\* No request is made to the registry.
RegistryIdle ==
    /\ lock = 0
    /\ clients = <<>>
    /\ instances = <<>>
    /\ req = <<>>
    /\ closed = <<>>
    /\ teardown = NotClosing

\* The token cache of a PlanetaryComputerClient.
VARIABLES
    now,         \* the wall clock, in seconds
    cache,       \* _cache: token url -> the token cached for it
    cache_lock,  \* the signing request that holds _cache_lock, or 0
    sign,        \* sign[r]: the href, position and result of signing request r
    sent         \* the requests sent to the token endpoint, oldest first

tokVars == <<now, cache, cache_lock, sign, sent>>

\* No url is being signed.
TokenIdle ==
    /\ now = 0
    /\ cache = <<>>
    /\ cache_lock = 0
    /\ sign = <<>>
    /\ sent = <<>>

\* The asset keys of the collection items all pass every filter of Configs, so
\* filters are only varied for single items, except for the invalid
\* combination of both.  The three assets of ItemThree get three different
\* names under either strategy, so it is downloaded whole and under the
\* default strategy only.  The directory only enters a destination path as
\* its prefix, so the relative one is passed with the one-asset item only.
\* Without a filter keep_non_downloaded assigns the mapping the owner already
\* has, so it is passed with exactly one filter only.
\* Alternates are resolved per asset and independently of filters, naming and
\* concurrency, so alternate names are configured for one-asset items only.
Inputs ==
    {in \in Configs \X Calls :
        /\ in[2].directory = RelDirectory => in[2].items = <<ItemOne>>
        /\ in[2].keep_non_downloaded => (in[1].include = {}) # (in[1].exclude = {})
        /\ in[1].alternate_assets # <<>> =>
            /\ in[2].entry = "download_item"
            /\ in[2].items \in {<<it>> : it \in AlternateItems \cup {ItemOne}}
            /\ in[2].directory = Directory
            /\ in[2].max_concurrent_downloads = 1
            /\ in[1].include = {} /\ in[1].exclude = {}
            /\ in[1].file_name_strategy = "FILE_NAME"
        /\ in[2].items \in {<<it>> : it \in AlternateItems} =>
            in[1].alternate_assets # <<>>
        /\ in[2].entry = "download_item_collection"
            => ((in[1].include = {}) <=> (in[1].exclude = {}))
        /\ in[2].items = <<ItemThree>>
            => /\ in[1].include = {} /\ in[1].exclude = {}
               /\ in[1].file_name_strategy = "FILE_NAME"}

Init ==
    /\ \E in \in Inputs :
        /\ config = in[1]
        /\ call = in[2]
    /\ pc = "new"
    /\ outcome = NoOutcome
    /\ owners = <<>>
    /\ downloads = <<>>
    /\ sem = 0
    /\ st = <<>>
    /\ written = <<>>
    /\ linked = <<>>
    /\ cancelReq = <<>>
    /\ gatherExc = 0
    /\ files \in PreExisting(call)
    /\ opens = <<>>
    /\ warned = {}
    /\ messages = NoChannel
    /\ dirs = Existing(files)
    /\ RegistryIdle
    /\ TokenIdle

\* download_item of three assets into an empty directory, on one slot and on
\* two, under every setting of warn and fail_fast.
InitFair ==
    /\ Init
    /\ call.entry = "download_item" /\ call.items = <<ItemThree>>
    /\ call.directory = Directory /\ ~call.keep_non_downloaded
    /\ config.error_strategy = "DELETE" /\ config.clean /\ ~config.overwrite
    /\ files = <<>>

\* download_item of three assets, the destination of the first of which may
\* exist, with a progress queue nobody reads, made without a maximum size or
\* with room for QueueSize messages.
QueueSize == 2
InitQueue ==
    /\ \E in \in Inputs :
        /\ config = in[1]
        /\ call = in[2]
    /\ call.entry = "download_item" /\ call.items = <<ItemThree>>
    /\ call.directory = Directory /\ ~call.keep_non_downloaded
    /\ config.error_strategy = "DELETE" /\ config.clean /\ ~config.overwrite
    /\ pc = "new"
    /\ outcome = NoOutcome
    /\ owners = <<>>
    /\ downloads = <<>>
    /\ sem = 0
    /\ st = <<>>
    /\ written = <<>>
    /\ linked = <<>>
    /\ cancelReq = <<>>
    /\ gatherExc = 0
    /\ files \in PreExisting(call)
    /\ opens = <<>>
    /\ warned = {}
    /\ messages \in [given : {TRUE}, maxsize : {0, QueueSize}, put : {<<>>}]
    /\ dirs = Existing(files)
    /\ RegistryIdle
    /\ TokenIdle

\* ------------------------------------------------- Downloads.__init__
ValidConfigFiltersOnly(c) == ~(c.include # {} /\ c.exclude # {})

\* Config.validate
ValidConfig(c) ==
    /\ ~(c.include # {} /\ c.exclude # {})
    /\ ~(c.warn /\ c.fail_fast)

\* Downloads.__init__: validate the config, create the semaphore.
Construct ==
    /\ pc = "new"
    /\ IF ValidConfig(config)
       THEN /\ pc' = "adding"
            /\ sem' = call.max_concurrent_downloads
            /\ outcome' = outcome
       ELSE /\ pc' = "done"
            /\ sem' = sem
            /\ outcome' = [kind |-> "ConfigError"]
    /\ UNCHANGED <<regVars, tokVars>>
    /\ UNCHANGED <<messages, dirs,
                   config, call, owners, downloads, st, written, linked, cancelReq,
                   gatherExc, files, opens, warned>>

\* ------------------------------------------------------- Downloads.add
InScopeAll(k) == TRUE

\* The filter of the generator in Downloads.add.
InScope(k) ==
    /\ (config.include = {} \/ k \in config.include)
    /\ (config.exclude = {} \/ k \notin config.exclude)

\* The file name of an asset under the configured strategy.
AssetFileName(key, href) ==
    IF config.file_name_strategy = "FILE_NAME"
    THEN Basename(href)
    ELSE key \o Suffix(href)

NameTakenNever(name, names) == FALSE

\* The check made before an asset's file name is accepted.
NameTaken(name, names) == name \in names

\* The root directory the entry point passes to add for an item.
RootOf(item) ==
    IF call.entry = "download_item_collection"
    THEN JoinPath(call.directory, item.id)
    ELSE call.directory

\* The self href the item has when add receives it.
SelfHrefAtAdd(item) ==
    IF call.entry = "download_item_collection" THEN None ELSE item.self_href

CannotMakeAbsoluteNever(item) == FALSE

\* make_asset_hrefs_absolute fails on a relative href without a self href.
CannotMakeAbsolute(item) ==
    /\ SelfHrefAtAdd(item) = None
    /\ \E j \in 1..Len(item.assets) : ~IsAbsoluteHref(item.assets[j].href)

AbsoluteAssets(item) ==
    [j \in 1..Len(item.assets) |->
        [key |-> item.assets[j].key,
         href |-> MakeAbsoluteHref(item.assets[j].href, SelfHrefAtAdd(item))]]

\* The in-scope assets of an item, in mapping order, each with its file name.
Scoped(item) ==
    LET keep(a) == InScope(a.key)
        inScope == SelectSeq(AbsoluteAssets(item), keep)
    IN  [j \in 1..Len(inScope) |->
            [key |-> inScope[j].key, href |-> inScope[j].href,
             name |-> AssetFileName(inScope[j].key, inScope[j].href)]]

\* The positions of Scoped(item) whose name an earlier position took.
Clashes(scoped) ==
    {j \in 1..Len(scoped) : NameTaken(scoped[j].name, {scoped[i].name : i \in 1..(j - 1)})}

\* The Download records add appends for the first n in-scope assets.
Registered(item, owner, scoped, n) ==
    [j \in 1..n |->
        [owner |-> owner, key |-> scoped[j].key, href |-> scoped[j].href,
         path |-> JoinPath(RootOf(item), scoped[j].name)]]

\* Downloads.add for the next item of the call.
Add ==
    /\ pc = "adding"
    /\ Len(owners) < Len(call.items)
    /\ LET n == Len(owners) + 1
           item == call.items[n]
           scoped == Scoped(item)
           clashes == Clashes(scoped)
       IN  IF CannotMakeAbsolute(item)
           THEN /\ pc' = "done"
                /\ outcome' = [kind |-> "STACError"]
                /\ owners' = Append(owners, [id |-> item.id, self_href |-> None,
                                             assets |-> item.assets])
                /\ downloads' = downloads
           ELSE IF clashes # {}
           THEN /\ pc' = "done"
                /\ outcome' = [kind |-> "AssetOverwriteError"]
                /\ owners' = Append(owners, [id |-> item.id, self_href |-> None,
                                             assets |-> AbsoluteAssets(item)])
                /\ downloads' =
                       downloads \o Registered(item, n, scoped, Min(clashes) - 1)
           ELSE LET keep_non_downloaded == call.keep_non_downloaded IN
                /\ pc' = pc
                /\ outcome' = outcome
                /\ owners' =
                       Append(owners,
                              [id |-> item.id,
                               self_href |-> IF call.file_name = None THEN None
                                             ELSE JoinPath(RootOf(item), call.file_name),
                               assets |-> IF keep_non_downloaded
                                          THEN AbsoluteAssets(item)
                                          ELSE [j \in 1..Len(scoped) |->
                                                   [key |-> scoped[j].key,
                                                    href |-> scoped[j].href]]])
                /\ downloads' = downloads \o Registered(item, n, scoped, Len(scoped))
    /\ UNCHANGED <<regVars, tokVars>>
    /\ UNCHANGED <<messages, dirs,
                   config, call, sem, st, written, linked, cancelReq, gatherExc,
                   files, opens, warned>>

\* -------------------------------------------------- Downloads.download
\* The tasks Downloads.download has created.
Tasks == DOMAIN st

Done(s) == s \in {"succeeded", "failed", "raised", "cancelled"}

\* A task between semaphore.acquire() and semaphore.release().
Holding(s) == s \in {"opening", "streaming"}

AllDone == \A i \in Tasks : Done(st[i])

SettledWithoutWaiting == TRUE

\* await asyncio.gather(...) returns once every task it was given is done.
Settled == AllDone

\* The loop of Downloads.download that creates one task per download; the
\* coroutine then suspends in asyncio.gather.
StartDownload ==
    /\ pc = "adding"
    /\ Len(owners) = Len(call.items)
    /\ pc' = "gathering"
    /\ st' = [i \in 1..Len(downloads) |-> "waiting"]
    /\ written' = [i \in 1..Len(downloads) |-> 0]
    /\ linked' = [i \in 1..Len(downloads) |-> FALSE]
    /\ cancelReq' = [i \in 1..Len(downloads) |-> FALSE]
    /\ opens' = [i \in 1..Len(downloads) |-> 0]
    /\ messages' = [messages EXCEPT !.put = [i \in 1..Len(downloads) |-> <<>>]]
    /\ UNCHANGED <<regVars, tokVars>>
    /\ UNCHANGED <<dirs, config, call, outcome, owners, downloads, sem, gatherExc, files,
                   warned>>

\* ------------------------------------------------------------ the tasks
PathExists(p) == p \in DOMAIN files

CanAcquireUnguarded == TRUE

\* Semaphore.acquire returns only while a slot is free.
CanAcquire == sem > 0

MustDownloadAlways(d) == TRUE

MustDownloadIfAbsent(d) == ~PathExists(d.path)

\* Download.download fetches unless the destination exists and overwrite is off.
MustDownload(d) == ~PathExists(d.path) \/ config.overwrite

\* asset.href = str(path) on the asset of download d.
Rewritten(ows, d) ==
    [ows EXCEPT ![d.owner].assets =
        [j \in 1..Len(@) |-> IF @[j].key = d.key
                             THEN [key |-> d.key, href |-> d.path]
                             ELSE @[j]]]

\* The asset of download d as the caller passed it.
AssetOf(d) ==
    LET assets == call.items[d.owner].assets
    IN  assets[CHOOSE j \in 1..Len(assets) : assets[j].key = d.key]

\* get_absolute_asset_href looks for an alternate only if the asset has an
\* "alternate" dictionary and names are configured.
Configured(d) ==
    IF AssetOf(d).alternate # NoAlternate /\ config.alternate_assets # <<>>
    THEN {j \in 1..Len(config.alternate_assets) :
             config.alternate_assets[j] \in DOMAIN AssetOf(d).alternate}
    ELSE {}

PickedLast(present) == Max(present)

\* The loop over config.alternate_assets returns at the first name present.
Picked(present) == Min(present)

\* The entry of the asset's alternate dictionary the loop stops at.
Alternate(d) == AssetOf(d).alternate[config.alternate_assets[Picked(Configured(d))]]

\* alternate[alternate_asset]["href"] raises KeyError, turned into ValueError.
MalformedAlternate(d) == Configured(d) # {} /\ "href" \notin DOMAIN Alternate(d)

\* get_absolute_asset_href, where it returns.
FetchedHref(d) ==
    IF Configured(d) # {}
    THEN MakeAbsoluteHref(Alternate(d).href, owners[d.owner].self_href)
    ELSE d.href

BlobDomain ==
    <<"b", "l", "o", "b", ".", "c", "o", "r", "e", ".",
      "w", "i", "n", "d", "o", "w", "s", ".", "n", "e", "t">>

\* guess_client_class_from_href: the backend class for an href, "ValueError"
\* if there is none.
ClientKind(h) ==
    IF Host(h) = <<>> THEN "FilesystemClient"
    ELSE IF Scheme(h) = <<"s", "3">> THEN "S3Client"
    ELSE IF EndsWith(Host(h), BlobDomain) THEN "PlanetaryComputerClient"
    ELSE IF Scheme(h) \in {<<"h", "t", "t", "p">>, <<"h", "t", "t", "p", "s">>}
    THEN "HttpClient"
    ELSE "ValueError"

\* download_asset gets as far as download_href: the href resolves and a
\* backend exists for it.
Resolvable(d) ==
    /\ ~MalformedAlternate(d)
    /\ ClientKind(FetchedHref(d)) # "ValueError"

\* The k-th chunk yielded for download d: by the backend chosen for the
\* fetched href, from that href.
Chunk(d, k) == <<ClientKind(FetchedHref(d)), FetchedHref(d), k>>

Hole == <<"hole", <<>>, 0>>

\* A write of one chunk at chunk offset pos of a file.
WriteAt(content, pos, chunk) ==
    [j \in 1..Max({Len(content), pos + 1}) |->
        IF j = pos + 1 THEN chunk
        ELSE IF j <= Len(content) THEN content[j]
        ELSE Hole]

\* Path.unlink
OpenedForUpdate(fs, p) == IF p \in DOMAIN fs THEN fs ELSE (p :> <<>>) @@ fs

\* aiofiles.open(path, mode="wb"): the file is created, or emptied if it
\* exists.
Truncated(fs, p) == (p :> <<>>) @@ fs

Unlinked(fs, p) == [q \in DOMAIN fs \ {p} |-> fs[q]]

FailsFastNever == FALSE

\* The except clause of Download.download: with fail_fast the exception leaves
\* the task, and gather hands the first such exception to Downloads.download;
\* otherwise the task returns a WrappedError.
FailsFast == config.fail_fast

FullAtThree(i) == Len(messages.put[i]) >= 3

\* Queue.qsize() of the progress queue.
Queued ==
    Cardinality(UNION {{i} \X (1..Len(messages.put[i])) : i \in DOMAIN messages.put})

\* Queue.full() of the progress queue.
Full(i) == messages.maxsize > 0 /\ Queued >= messages.maxsize

\* The puts of one step all find room.
Fits(evs) == messages.maxsize > 0 => Queued + Len(evs) <= messages.maxsize

PutFirst(i, evs) ==
    /\ messages.given => ~Full(i) /\ Fits(evs)
    /\ messages' = IF messages.given
                   THEN [messages EXCEPT !.put[i] = evs \o @]
                   ELSE messages

\* `if messages: await messages.put(...)`, for each of evs in turn: a put
\* waits while the queue is full and then appends; with no queue nothing is
\* put.  A step ends when all its puts have returned.
Put(i, evs) ==
    /\ messages.given => ~Full(i) /\ Fits(evs)
    /\ messages' = IF messages.given
                   THEN [messages EXCEPT !.put[i] = @ \o evs]
                   ELSE messages

\* `not path.parent.exists()`
DirectoryMissing(d) == Dirname(d.path) \notin dirs

MakesDirectoryAlways == TRUE

MakesDirectory == config.make_directory

\* download_with_lock up to the first suspension of the download: acquire
\* the semaphore, then either skip (destination exists) and release, or go on
\* into download_asset, which raises if the destination directory is missing
\* and not to be made, and else makes it where missing.
Begin(i) ==
    /\ st[i] = "waiting"
    /\ ~cancelReq[i]
    /\ CanAcquire
    /\ IF ~MustDownload(downloads[i])
       THEN /\ st' = [st EXCEPT ![i] = "succeeded"]
            /\ sem' = sem
            /\ owners' = Rewritten(owners, downloads[i])
            /\ Put(i, <<"SkipAssetDownload">>)
            /\ UNCHANGED <<gatherExc, dirs>>
       ELSE IF DirectoryMissing(downloads[i]) /\ ~MakesDirectory
       THEN /\ st' = [st EXCEPT ![i] = IF FailsFast THEN "raised" ELSE "failed"]
            /\ gatherExc' = IF FailsFast /\ gatherExc = 0 THEN i ELSE gatherExc
            /\ UNCHANGED <<sem, owners, messages, dirs>>
       ELSE /\ st' = [st EXCEPT ![i] = "opening"]
            /\ sem' = sem - 1
            /\ dirs' = dirs \cup Ancestors(Dirname(downloads[i].path))
            /\ UNCHANGED <<owners, gatherExc, messages>>
    /\ UNCHANGED <<regVars, tokVars>>
    /\ UNCHANGED <<config, call, pc, outcome, downloads, written, linked, cancelReq,
                   files, opens, warned>>

TaskFailedHolding(i) ==
    /\ st' = [st EXCEPT ![i] = IF FailsFast THEN "raised" ELSE "failed"]
    /\ gatherExc' = IF FailsFast /\ gatherExc = 0 THEN i ELSE gatherExc
    /\ sem' = sem

\* An exception leaves download.download inside download_with_lock: the
\* finally releases the semaphore.
TaskFailed(i) ==
    /\ st' = [st EXCEPT ![i] = IF FailsFast THEN "raised" ELSE "failed"]
    /\ gatherExc' = IF FailsFast /\ gatherExc = 0 THEN i ELSE gatherExc
    /\ sem' = sem + 1

\* download_asset raises before the destination is opened (missing output
\* directory, malformed alternate, no absolute href, no client for the href).
FailBeforeOpen(i) ==
    /\ st[i] = "opening"
    /\ ~cancelReq[i]
    /\ TaskFailed(i)
    /\ UNCHANGED <<regVars, tokVars>>
    /\ UNCHANGED <<messages, dirs,
                   config, call, pc, outcome, owners, downloads, written, linked,
                   cancelReq, files, opens, warned>>

\* download_asset has its client and puts the start message; then
\* Client.download_href: aiofiles.open(path, "wb") creates or truncates the
\* destination, then the backend's open is called.
Open(i) ==
    /\ st[i] = "opening"
    /\ ~cancelReq[i]
    /\ Resolvable(downloads[i])
    /\ st' = [st EXCEPT ![i] = "streaming"]
    /\ files' = Truncated(files, downloads[i].path)
    /\ linked' = [linked EXCEPT ![i] = TRUE]
    /\ opens' = [opens EXCEPT ![i] = @ + 1]
    /\ Put(i, <<"StartAssetDownload">>)
    /\ UNCHANGED <<regVars, tokVars>>
    /\ UNCHANGED <<dirs, config, call, pc, outcome, owners, downloads, sem, written,
                   cancelReq, gatherExc, warned>>

\* The messages of one iteration of the loop of Client.download_href: the
\* backend's open puts its message once the source answered, before it
\* yields the first chunk; download_href puts one message per chunk written.
ChunkMessages(i) ==
    IF written[i] = 0 THEN <<"OpenUrl", "WriteChunk">> ELSE <<"WriteChunk">>

\* One iteration of the loop of Client.download_href: a chunk is read and
\* written through the task's file handle.
WriteChunk(i) ==
    /\ st[i] = "streaming"
    /\ ~cancelReq[i]
    /\ written[i] < NumChunks
    /\ written' = [written EXCEPT ![i] = @ + 1]
    /\ files' = IF linked[i]
                THEN [files EXCEPT ![downloads[i].path] =
                         WriteAt(@, written[i], Chunk(downloads[i], written[i] + 1))]
                ELSE files
    /\ Put(i, ChunkMessages(i))
    /\ UNCHANGED <<regVars, tokVars>>
    /\ UNCHANGED <<dirs, config, call, pc, outcome, owners, downloads, sem, st, linked,
                   cancelReq, gatherExc, opens, warned>>

\* The backend is exhausted: the file is closed, the href rewritten, the
\* semaphore released and the task returns its Download.
Finish(i) ==
    /\ st[i] = "streaming"
    /\ ~cancelReq[i]
    /\ written[i] = NumChunks
    /\ st' = [st EXCEPT ![i] = "succeeded"]
    /\ owners' = Rewritten(owners, downloads[i])
    /\ sem' = sem + 1
    /\ written' = [written EXCEPT ![i] = 0]
    /\ linked' = [linked EXCEPT ![i] = FALSE]
    /\ Put(i, <<"FinishAssetDownload">>)
    /\ UNCHANGED <<regVars, tokVars>>
    /\ UNCHANGED <<dirs, config, call, pc, outcome, downloads, cancelReq, gatherExc, files,
                   opens, warned>>

CleansAlways(p) == PathExists(p)

\* The handler of Client.download_href deletes the destination when clean is
\* set and the file exists.
Cleans(p) == config.clean /\ PathExists(p)

ErrorMessagesNone == <<>>

\* The except clause of download_asset: `await messages.put(ErrorAssetDownload(...))`
ErrorMessages == <<"ErrorAssetDownload">>

\* The backend's open or a read or a write raises an exception.  The unlink
\* of the handler removes the file, or raises itself and is passed over; the
\* exception of the download is raised again in either case.
FailStream(i) ==
    /\ st[i] = "streaming"
    /\ ~cancelReq[i]
    /\ \E removed \in BOOLEAN :
        LET p == downloads[i].path
        IN  IF Cleans(p) /\ removed
            THEN /\ files' = Unlinked(files, p)
                 /\ linked' = [j \in Tasks |-> linked[j] /\ downloads[j].path # p]
            ELSE /\ files' = files
                 /\ linked' = [linked EXCEPT ![i] = FALSE]
    /\ written' = [written EXCEPT ![i] = 0]
    /\ TaskFailed(i)
    /\ Put(i, ErrorMessages)
    /\ UNCHANGED <<regVars, tokVars>>
    /\ UNCHANGED <<dirs, config, call, pc, outcome, owners, downloads, cancelReq, opens,
                   warned>>

\* CancelledError is delivered at the task's suspension point.  It is not an
\* Exception, so no except clause of the download handles it: only the finally
\* of download_with_lock runs.  A task cancelled while aiofiles opens its
\* destination in a worker thread may or may not leave the created file.
Unwound(i) ==
    /\ cancelReq[i]
    /\ ~Done(st[i])
    /\ st' = [st EXCEPT ![i] = "cancelled"]
    /\ cancelReq' = [cancelReq EXCEPT ![i] = FALSE]
    /\ sem' = IF Holding(st[i]) THEN sem + 1 ELSE sem
    /\ \E created \in BOOLEAN :
        files' = IF st[i] = "opening" /\ created
                 THEN Truncated(files, downloads[i].path)
                 ELSE files
    /\ written' = [written EXCEPT ![i] = 0]
    /\ linked' = [linked EXCEPT ![i] = FALSE]
    /\ UNCHANGED <<messages, dirs,
                   config, call, pc, outcome, owners, downloads, gatherExc, opens,
                   warned>>

\* The task is cancelled while it is not inside a request to the registry.
Cancelled(i) ==
    /\ Unwound(i)
    /\ UNCHANGED <<regVars, tokVars>>

\* ------------------------------------------- Downloads.download, resumed
\* The tasks Downloads.download cancels after gather raised.
ToCancel == {i \in Tasks : ~Done(st[i])}

\* except Exception: gather raised the first task exception; cancel the rest
\* and suspend in the second gather.
Catch ==
    /\ pc = "gathering"
    /\ gatherExc # 0
    /\ pc' = "cancelling"
    /\ cancelReq' = [i \in Tasks |-> i \in ToCancel]
    /\ UNCHANGED <<regVars, tokVars>>
    /\ UNCHANGED <<messages, dirs,
                   config, call, outcome, owners, downloads, sem, st, written, linked,
                   gatherExc, files, opens, warned>>

\* The second gather returned: raise the exception the first gather raised.
Reraise ==
    /\ pc = "cancelling"
    /\ Settled
    /\ pc' = "done"
    /\ outcome' = [kind |-> "exception", task |-> gatherExc]
    /\ UNCHANGED <<regVars, tokVars>>
    /\ UNCHANGED <<messages, dirs,
                   config, call, owners, downloads, sem, st, written, linked, cancelReq,
                   gatherExc, files, opens, warned>>

\* The results that are WrappedErrors.
Wrapped == {i \in Tasks : st[i] = "failed"}

DeletedNone(ows, failed) == ows

\* del result.download.owner.assets[result.download.key], for every failure.
Deleted(ows, failed) ==
    [o \in 1..Len(ows) |->
        [ows[o] EXCEPT !.assets =
            LET kept(a) == ~\E i \in failed :
                               downloads[i].owner = o /\ downloads[i].key = a.key
            IN  SelectSeq(@, kept)]]

CollectedFirst == IF config.warn \/ Wrapped = {} THEN {} ELSE {Min(Wrapped)}

\* The errors the loop over the results appends to exceptions.
Collected == IF config.warn THEN {} ELSE Wrapped

\* The errors the loop over the results warns about.
Warned == IF config.warn THEN Wrapped ELSE {}

DeletesAlways == TRUE

DeletesNever == FALSE

\* The test on the error strategy in the loop over the results.
DeletesFailed == config.error_strategy = "DELETE"

\* The orders in which gather can return the results of a set of tasks.
Orders(S) == {s \in [1..Cardinality(S) -> S] : \A i \in S : \E j \in DOMAIN s : s[j] = i}

\* exceptions.append(result.error): what the list of DownloadError gets for
\* the WrappedError of task i is the exception download_asset raised, without
\* the Download it was raised for; its text is that exception's own.
Appended(i) ==
    [error |-> IF opens[i] > 0 THEN "ClientResponseError"
               ELSE IF DirectoryMissing(downloads[i]) THEN "FileNotFoundError"
               ELSE "ValueError"]

\* The first gather returned every task's result: apply the error strategy,
\* warn or collect, and raise DownloadError if anything was collected.
Collect ==
    /\ pc = "gathering"
    /\ gatherExc = 0
    /\ AllDone
    /\ pc' = "done"
    /\ owners' = IF DeletesFailed THEN Deleted(owners, Wrapped) ELSE owners
    /\ warned' = Warned
    /\ \E exceptions \in Orders(Collected) :
        outcome' = IF exceptions # <<>>
                   THEN [kind |-> "DownloadError", exceptions |-> exceptions]
                   ELSE [kind |-> "returned"]
    /\ UNCHANGED <<regVars, tokVars>>
    /\ UNCHANGED <<messages, dirs,
                   config, call, downloads, sem, st, written, linked, cancelReq,
                   gatherExc, files, opens>>

\* ------------------------------------------------ Clients (the registry)
\* The registry of backend instances that download_asset asks for a client:
\* get_client(href) classifies the href and, under the registry's lock,
\* returns the cached instance of that class or constructs and caches one.
\* The hrefs clients are requested for.
RegistryHrefs ==
    {HrefSF, HrefTF, HrefS3, HrefHttps, HrefGs,
     <<"h", "t", "t", "p", "s", ":", "/", "/", "a", ".">> \o BlobDomain \o <<"/", "k">>,
     <<"s", "3", ":", "/", "/", "a", ".">> \o BlobDomain \o <<"/", "k">>}

Requests == DOMAIN req

LockFreeAlways == TRUE

\* Lock.acquire returns only while nobody holds the lock.
LockFree == lock = 0

\* get_client starts: the href is classified, then the lock is awaited.
Classify(r) ==
    /\ req[r].pc = "start"
    /\ req' = [req EXCEPT ![r].pc = IF ClientKind(req[r].href) = "ValueError"
                                    THEN "failed" ELSE "waiting"]
    /\ UNCHANGED <<lock, clients, instances, closed, teardown>>
    /\ UNCHANGED <<vars, tokVars>>

\* The lock is acquired.
Acquire(r) ==
    /\ req[r].pc = "waiting"
    /\ LockFree
    /\ lock' = r
    /\ req' = [req EXCEPT ![r].pc = "locked"]
    /\ UNCHANGED <<clients, instances, closed, teardown>>
    /\ UNCHANGED <<vars, tokVars>>

\* Under the lock: a cached instance is returned and the lock released, or
\* the construction of a new instance starts and suspends.
Lookup(r) ==
    /\ req[r].pc = "locked"
    /\ LET kind == ClientKind(req[r].href)
       IN  IF kind \in DOMAIN clients
           THEN /\ req' = [req EXCEPT ![r].pc = "done", ![r].client = clients[kind]]
                /\ lock' = 0
           ELSE /\ req' = [req EXCEPT ![r].pc = "constructing"]
                /\ lock' = lock
    /\ UNCHANGED <<clients, instances, closed, teardown>>
    /\ UNCHANGED <<vars, tokVars>>

\* The construction returns: the instance is cached and returned, the lock
\* released.
Constructed(r) ==
    /\ req[r].pc = "constructing"
    /\ LET kind == ClientKind(req[r].href)
           n == Len(instances) + 1
       IN  /\ instances' = Append(instances, kind)
           /\ clients' = (kind :> n) @@ clients
           /\ req' = [req EXCEPT ![r].pc = "done", ![r].client = n]
           /\ closed' = Append(closed, 0)
    /\ lock' = 0
    /\ UNCHANGED teardown
    /\ UNCHANGED <<vars, tokVars>>

\* The construction raises (a login fails): nothing is cached, the lock is
\* released.
ConstructFails(r) ==
    /\ req[r].pc = "constructing"
    /\ req' = [req EXCEPT ![r].pc = "failed"]
    /\ lock' = 0
    /\ UNCHANGED <<clients, instances, closed, teardown>>
    /\ UNCHANGED <<vars, tokVars>>

\* --------------------------------------------- closing the registry
\* self.clients.values(): the cached instances, in the order they were cached.
Cached == Ascending({clients[kind] : kind \in DOMAIN clients})

\* No request to the registry is under way.
Quiet == \A r \in Requests : req[r].pc \in {"done", "failed", "cancelled"}

\* An exception of close() leaves the loop over the instances.
Stops(raised) == raised

\* The loop over the instances after the k-th close() ended: the next
\* close() is called, or the loop is left.
CloseFrom(k, raised) ==
    IF Stops(raised)
    THEN /\ teardown' = [pc |-> "raised", at |-> k]
         /\ closed' = closed
    ELSE IF k < Len(Cached)
    THEN /\ teardown' = [pc |-> "closing", at |-> k + 1]
         /\ closed' = [closed EXCEPT ![Cached[k + 1]] = @ + 1]
    ELSE /\ teardown' = [pc |-> "closed", at |-> k]
         /\ closed' = closed

\* The registry is closed once the requests made to it have ended: the loop
\* over the cached instances starts and suspends in the first close().
CloseAll ==
    /\ teardown.pc = "open"
    /\ Quiet
    /\ CloseFrom(0, FALSE)
    /\ UNCHANGED <<lock, clients, instances, req>>
    /\ UNCHANGED <<vars, tokVars>>

\* The classes whose close() closes a network session, which may raise; the
\* other classes have nothing to close.
ClosesSession(kind) == kind \in {"HttpClient", "PlanetaryComputerClient"}

\* The close() the loop is suspended in returns or raises.
CloseEnds ==
    /\ teardown.pc = "closing"
    /\ \E raised \in {FALSE, ClosesSession(instances[Cached[teardown.at]])} :
        CloseFrom(teardown.at, raised)
    /\ UNCHANGED <<lock, clients, instances, req>>
    /\ UNCHANGED <<vars, tokVars>>

\* Parallel download tasks that each ask one registry for a client.
InitRegistry ==
    /\ \E in \in Inputs :
        /\ in[1] = [warn |-> FALSE, fail_fast |-> FALSE, error_strategy |-> "DELETE",
                    clean |-> TRUE, overwrite |-> FALSE,
                    file_name_strategy |-> "FILE_NAME", include |-> {},
                    exclude |-> {}, alternate_assets |-> <<>>,
                    make_directory |-> TRUE]
        /\ in[2].items = <<ItemOne>> /\ in[2].entry = "download_item"
        /\ in[2].directory = Directory
        /\ in[2].max_concurrent_downloads = MaxConcurrent
        /\ config = in[1]
        /\ call = in[2]
    /\ pc = "gathering"
    /\ outcome = NoOutcome
    /\ owners = <<>>
    /\ downloads = <<>>
    /\ sem = 0
    /\ st = <<>>
    /\ written = <<>>
    /\ linked = <<>>
    /\ cancelReq = <<>>
    /\ gatherExc = 0
    /\ files = <<>>
    /\ opens = <<>>
    /\ warned = {}
    /\ messages = NoChannel
    /\ dirs = {}
    /\ lock = 0
    /\ clients = <<>>
    /\ instances = <<>>
    /\ closed = <<>>
    /\ teardown = NotClosing
    /\ TokenIdle
    /\ req \in [1..MaxRequests -> [href : RegistryHrefs, pc : {"start"}, client : {0}]]

NextRegistry ==
    \/ \E r \in Requests : Classify(r)
    \/ \E r \in Requests : Acquire(r)
    \/ \E r \in Requests : Lookup(r)
    \/ \E r \in Requests : Constructed(r)
    \/ \E r \in Requests : ConstructFails(r)
    \/ CloseAll
    \/ CloseEnds

\* --------------------------------------- classification, on its own
\* guess_client of the package's top level: the class of the client it
\* returns for an href.
GuessClient(h) ==
    LET usgs == <<"h", "t", "t", "p", "s", ":", "/", "/", "l", "a", "n", "d", "s", "a",
                  "t", "l", "o", "o", "k", ".", "u", "s", "g", "s", ".", "g", "o", "v">>
    IN  IF Host(h) = <<>> THEN "FilesystemClient"
        ELSE IF EndsWith(Host(h), BlobDomain) THEN "PlanetaryComputerClient"
        ELSE IF Host(h) = usgs THEN "UsgsErosClient"
        ELSE IF Scheme(h) \in {<<"h", "t", "t", "p">>, <<"h", "t", "t", "p", "s">>}
        THEN "HttpClient"
        ELSE IF Scheme(h) = <<"s", "3">> THEN "S3Client"
        ELSE "FilesystemClient"

\* A caller classifies href r with one of the two functions; client is the
\* class returned, or "ValueError".
Guess(r) ==
    /\ req[r].pc = "start"
    /\ \/ req' = [req EXCEPT ![r].pc = "guess_client",
                              ![r].client = GuessClient(req[r].href)]
       \/ req' = [req EXCEPT ![r].pc = "guess_client_class_from_href",
                              ![r].client = ClientKind(req[r].href)]
    /\ UNCHANGED <<lock, clients, instances, closed, teardown>>
    /\ UNCHANGED <<vars, tokVars>>

NextClassify == \E r \in Requests : Guess(r)

\* ------------------------------------------------------ asset_exists
CatchesValueError(error) == error = "ValueError"

\* `except Exception` of asset_exists.
Catches(error) == TRUE

\* asset_exists, when assert_asset_exists has ended, by completing or with
\* an exception: what it returns, or the exception that leaves it.
AssetExists(ended) ==
    IF ended = "completed"
    THEN [kind |-> "returned", value |-> TRUE, assertion |-> ended]
    ELSE IF Catches(ended)
    THEN [kind |-> "returned", value |-> FALSE, assertion |-> ended]
    ELSE [kind |-> ended]

\* asset_exists is called for an asset of the item: assert_asset_exists
\* creates a registry, resolves the href to probe and asks for its client.
Probe ==
    /\ pc = "new"
    /\ \E j \in 1..Len(call.items[1].assets) :
        LET a == call.items[1].assets[j]
            base == call.items[1].self_href
            d == [owner |-> 1, key |-> a.key,
                  href |-> IF IsAbsoluteHref(a.href) THEN a.href
                           ELSE IF base = None THEN None
                           ELSE MakeAbsoluteHref(a.href, base)]
        IN  IF MalformedAlternate(d) \/ FetchedHref(d) = None
            THEN /\ pc' = "done"
                 /\ outcome' = AssetExists("ValueError")
                 /\ req' = req
            ELSE /\ pc' = "probing"
                 /\ outcome' = outcome
                 /\ req' = (1 :> [href |-> FetchedHref(d), pc |-> "start", client |-> 0])
    /\ UNCHANGED <<lock, clients, instances, closed, teardown>>
    /\ UNCHANGED tokVars
    /\ UNCHANGED <<messages, dirs,
                   config, call, owners, downloads, sem, st, written, linked, cancelReq,
                   gatherExc, files, opens, warned>>

\* get_client has ended.  If it raised, so does assert_asset_exists; else
\* the client's assert_href_exists is awaited: os.path.exists for the
\* filesystem, a HEAD request or head_object otherwise, which returns or
\* raises.
Answer ==
    /\ pc = "probing"
    /\ req[1].pc \in {"done", "failed"}
    /\ pc' = "done"
    /\ LET href == req[1].href
       IN  \E found \in BOOLEAN :
               /\ ClientKind(href) = "FilesystemClient" => found = (href \in DOMAIN files)
               /\ outcome' =
                      AssetExists(IF req[1].pc = "failed"
                                  THEN IF ClientKind(href) = "ValueError"
                                       THEN "ValueError" ELSE "LoginError"
                                  ELSE IF found THEN "completed"
                                  ELSE IF ClientKind(href) = "FilesystemClient"
                                  THEN "ValueError" ELSE "ClientResponseError")
    /\ UNCHANGED <<regVars, tokVars>>
    /\ UNCHANGED <<messages, dirs,
                   config, call, owners, downloads, sem, st, written, linked, cancelReq,
                   gatherExc, files, opens, warned>>

\* An asset of an item is probed; the file at /s/f.x exists or not.
InitExists ==
    /\ config \in {c \in Configs :
                       /\ ~c.warn /\ ~c.fail_fast /\ c.error_strategy = "DELETE"
                       /\ c.clean /\ ~c.overwrite
                       /\ c.file_name_strategy = "FILE_NAME"
                       /\ c.include = {} /\ c.exclude = {}}
    /\ call \in [entry : {"asset_exists"},
                  items : {<<ItemOne>>, <<ItemNoBase>>, <<ItemAlt>>, <<ItemAltBad>>,
                           <<ItemRel>>,
                           <<[id |-> <<"i", "6">>, self_href |-> SelfHref,
                              assets |-> <<[key |-> Ka, href |-> HrefGs,
                                            alternate |-> NoAlternate]>>]>>},
                  directory : {Directory}, keep_non_downloaded : {FALSE},
                  file_name : {None}, max_concurrent_downloads : {1}]
    /\ pc = "new"
    /\ outcome = NoOutcome
    /\ owners = <<[id |-> call.items[1].id, self_href |-> call.items[1].self_href,
                   assets |-> call.items[1].assets]>>
    /\ downloads = <<>>
    /\ sem = 0
    /\ st = <<>>
    /\ written = <<>>
    /\ linked = <<>>
    /\ cancelReq = <<>>
    /\ gatherExc = 0
    /\ files \in {<<>>, HrefSF :> OldContent}
    /\ opens = <<>>
    /\ warned = {}
    /\ messages = NoChannel
    /\ dirs = Existing(files)
    /\ RegistryIdle
    /\ TokenIdle

NextExists ==
    \/ Probe
    \/ \E r \in Requests : Classify(r)
    \/ \E r \in Requests : Acquire(r)
    \/ \E r \in Requests : Lookup(r)
    \/ \E r \in Requests : Constructed(r)
    \/ \E r \in Requests : ConstructFails(r)
    \/ Answer

\* ------------------------------------------- Client.download_item
\* The synchronous part of Client.download_item: one task per in-scope asset
\* is created and the item's asset is pointed at the task's destination, in
\* the same iteration of the loop; a file name taken twice cancels the tasks
\* created so far.  The tasks first run when gather is awaited.
CreateTasks ==
    /\ pc = "new"
    /\ LET item == call.items[1]
           scoped == Scoped(item)
           clashes == Clashes(scoped)
           n == IF clashes = {} THEN Len(scoped) ELSE Min(clashes) - 1
           made == Registered(item, 1, scoped, n)
           given == AbsoluteAssets(item)
       IN  /\ downloads' = made
           /\ owners' =
                  [owners EXCEPT ![1].assets =
                      [j \in 1..Len(given) |->
                          IF \E i \in 1..n : made[i].key = given[j].key
                          THEN [key |-> given[j].key,
                                href |-> made[CHOOSE i \in 1..n :
                                                 made[i].key = given[j].key].path]
                          ELSE given[j]]]
           /\ st' = [i \in 1..n |-> IF clashes = {} THEN "opening" ELSE "cancelled"]
           /\ pc' = IF clashes = {} THEN "gathering" ELSE "done"
           /\ outcome' = IF clashes = {} THEN outcome
                         ELSE [kind |-> "AssetOverwriteError"]
           /\ written' = [i \in 1..n |-> 0]
           /\ linked' = [i \in 1..n |-> FALSE]
           /\ cancelReq' = [i \in 1..n |-> FALSE]
           /\ opens' = [i \in 1..n |-> 0]
           /\ messages' = [messages EXCEPT !.put = [i \in 1..n |-> <<>>]]
    /\ UNCHANGED <<regVars, tokVars>>
    /\ UNCHANGED <<dirs, config, call, sem, gatherExc, files, warned>>

\* Client.download_item is called for an item the caller holds.  It has no
\* semaphore, no fail_fast and no error strategy: it deletes the failed
\* assets exactly when it warns, which is what the batch does under the
\* configs kept here.
InitLegacy ==
    /\ config \in {c \in Configs :
                       /\ ~c.fail_fast /\ (c.warn <=> c.error_strategy = "DELETE")
                       /\ c.clean /\ c.overwrite
                       /\ c.file_name_strategy = "FILE_NAME"
                       /\ c.include = {} /\ c.exclude = {}
                       /\ c.alternate_assets = <<>>}
    /\ call \in [entry : {"download_item"},
                  items : {<<ItemOne>>, <<ItemThree>>, <<ItemSameName>>},
                  directory : {Directory}, keep_non_downloaded : {FALSE},
                  file_name : {None}, max_concurrent_downloads : {MaxConcurrent}]
    /\ pc = "new"
    /\ outcome = NoOutcome
    /\ owners = <<[id |-> call.items[1].id, self_href |-> call.items[1].self_href,
                   assets |-> [j \in 1..Len(call.items[1].assets) |->
                                  [key |-> call.items[1].assets[j].key,
                                   href |-> call.items[1].assets[j].href]]]>>
    /\ downloads = <<>>
    /\ sem = 0
    /\ st = <<>>
    /\ written = <<>>
    /\ linked = <<>>
    /\ cancelReq = <<>>
    /\ gatherExc = 0
    /\ files = <<>>
    /\ opens = <<>>
    /\ warned = {}
    /\ messages = NoChannel
    /\ dirs = {Directory}
    /\ RegistryIdle
    /\ TokenIdle

NextLegacy ==
    \/ CreateTasks
    \/ \E i \in Tasks : FailBeforeOpen(i)
    \/ \E i \in Tasks : Open(i)
    \/ \E i \in Tasks : WriteChunk(i)
    \/ \E i \in Tasks : Finish(i)
    \/ \E i \in Tasks : FailStream(i)
    \/ Collect

\* ------------------------------------------ a batch with its registry
\* An item whose assets need an HttpClient and, twice, the FilesystemClient.
ItemMixed ==
    [id |-> <<"i", "5">>, self_href |-> SelfHref,
     assets |-> <<[key |-> Ka, href |-> HrefHttps, alternate |-> NoAlternate],
                 [key |-> Kb, href |-> HrefSF, alternate |-> NoAlternate],
                 [key |-> Kc, href |-> HrefSG, alternate |-> NoAlternate]>>]

\* download_asset asks the registry of its batch for the client of the href
\* it resolved; request i is the one of task i.
GetClient(i) ==
    /\ st[i] = "opening"
    /\ ~cancelReq[i]
    /\ i \notin Requests
    /\ ~MalformedAlternate(downloads[i])
    /\ req' = (i :> [href |-> FetchedHref(downloads[i]), pc |-> "start", client |-> 0])
                  @@ req
    /\ UNCHANGED <<lock, clients, instances, closed, teardown>>
    /\ UNCHANGED <<vars, tokVars>>

\* Task i is inside get_client.
InGetClient(i) == i \in Requests /\ req[i].pc \notin {"done", "failed"}

\* A task not being cancelled goes on inside get_client.
Running(r) == ~cancelReq[r]

\* download_href is called with the client get_client returned.
OpenResolved(i) ==
    /\ i \in Requests
    /\ req[i].pc = "done"
    /\ Open(i)

\* download_asset raises before it asks for a client, or get_client raised.
FailUnresolved(i) ==
    /\ IF i \in Requests THEN req[i].pc = "failed" ELSE TRUE
    /\ FailBeforeOpen(i)

\* CancelledError is delivered inside get_client: leaving `async with lock`
\* releases the lock if the task holds it, and nothing is cached.
CancelledInGetClient(i) ==
    /\ InGetClient(i)
    /\ Unwound(i)
    /\ req' = [req EXCEPT ![i].pc = "cancelled"]
    /\ lock' = IF lock = i THEN 0 ELSE lock
    /\ UNCHANGED tokVars
    /\ UNCHANGED <<clients, instances, closed, teardown>>

CancelledElsewhere(i) ==
    /\ ~InGetClient(i)
    /\ Cancelled(i)

\* The `async with Downloads(...)` block of the entry point is left, by
\* return or by an exception of add or download: __aexit__ closes the
\* registry.  An exception of Downloads(...) itself is raised outside it.
Exit ==
    /\ pc = "done"
    /\ outcome.kind # "ConfigError"
    /\ CloseAll

\* download_item of the mixed item, or of one whose file names collide,
\* under every setting of warn, fail_fast and make_directory, with and
\* without a progress queue; the destination directory exists, with one
\* file of the item in it, or does not exist.
InitTeardown ==
    /\ config \in {[c EXCEPT !.make_directory = m] : m \in BOOLEAN,
                     c \in {c \in Configs :
                       /\ c.error_strategy = "DELETE" /\ c.clean /\ ~c.overwrite
                       /\ c.file_name_strategy = "FILE_NAME"
                       /\ c.include = {} /\ c.exclude = {}
                       /\ c.alternate_assets = <<>>}}
    /\ call \in [entry : {"download_item"},
                  items : {<<ItemMixed>>, <<ItemSameName>>},
                  directory : {Directory}, keep_non_downloaded : {FALSE},
                  file_name : {None}, max_concurrent_downloads : 1..MaxConcurrent]
    /\ pc = "new"
    /\ outcome = NoOutcome
    /\ owners = <<>>
    /\ downloads = <<>>
    /\ sem = 0
    /\ st = <<>>
    /\ written = <<>>
    /\ linked = <<>>
    /\ cancelReq = <<>>
    /\ gatherExc = 0
    /\ files \in {<<>>, JoinPath(Directory, Basename(HrefSF)) :> OldContent}
    /\ config.make_directory \/ files = <<>>
    /\ opens = <<>>
    /\ warned = {}
    /\ messages \in [given : BOOLEAN, maxsize : {0}, put : {<<>>}]
    /\ dirs = Existing(files)
    /\ RegistryIdle
    /\ TokenIdle

NextTeardown ==
    \/ Construct
    \/ Add
    \/ StartDownload
    \/ \E i \in Tasks : Begin(i)
    \/ \E i \in Tasks : GetClient(i)
    \/ \E r \in Requests : Running(r) /\ Classify(r)
    \/ \E r \in Requests : Running(r) /\ Acquire(r)
    \/ \E r \in Requests : Running(r) /\ Lookup(r)
    \/ \E r \in Requests : Running(r) /\ Constructed(r)
    \/ \E r \in Requests : Running(r) /\ ConstructFails(r)
    \/ \E i \in Tasks : FailUnresolved(i)
    \/ \E i \in Tasks : OpenResolved(i)
    \/ \E i \in Tasks : WriteChunk(i)
    \/ \E i \in Tasks : Finish(i)
    \/ \E i \in Tasks : FailStream(i)
    \/ \E i \in Tasks : CancelledInGetClient(i)
    \/ \E i \in Tasks : CancelledElsewhere(i)
    \/ Catch
    \/ Reraise
    \/ Collect
    \/ Exit
    \/ CloseEnds

\* ------------------------------------- PlanetaryComputerClient: signing
\* Number of concurrent open_url calls on one client.
MaxSign == 3
\* The clock advances TickSeconds at a time, up to MaxNow.
TickSeconds == 30
MaxNow == 60
\* Seconds a token of the endpoint has to live when it is received.
Lifetimes == {30, 60, 120}
\* _get_token: a cached token with less than this many seconds is not used.
MinTtl == 60

BlobPrefix == <<"h", "t", "t", "p", "s", ":", "/", "/", "a", ".">> \o BlobDomain
BlobCX == BlobPrefix \o <<"/", "c", "/", "x">>
BlobCY == BlobPrefix \o <<"/", "c", "/", "y">>
BlobDX == BlobPrefix \o <<"/", "d", "/", "x">>
BlobSigned == BlobCX \o <<"?", "s", "v", "=", "1", "&", "s", "t", "=", "2">>
PublicHost ==
    <<"a", "i", "4", "e", "d", "a", "t", "a", "s", "e", "t", "s", "p", "u", "b", "l",
      "i", "c", "a", "s", "s", "e", "t", "s", ".">> \o BlobDomain

\* The hrefs opened: two blobs of one container, a blob of another container
\* of the same account, and a blob url that carries a SAS query already.
\* The public host is told by comparing the host as a whole, so no url of
\* it is opened.
SignHrefs == {BlobCX, BlobCY, BlobDX, BlobSigned}

\* Where the query of a url starts, or Len + 1.
QueryAt(h) ==
    LET marks == {i \in 1..Len(h) : h[i] = "?"}
    IN  IF marks = {} THEN Len(h) + 1 ELSE Min(marks)

\* url.with_query(None)
WithoutQuery(h) == SubSeq(h, 1, QueryAt(h) - 1)

\* set(url.query): the names of the query's parameters.
QueryKeys(h) ==
    LET q == SubSeq(h, QueryAt(h) + 1, Len(h))
        starts == {i \in 1..Len(q) : i = 1 \/ q[i - 1] = "&"}
        stop(i) == Min({j \in i..(Len(q) + 1) : j = Len(q) + 1 \/ q[j] \in {"=", "&"}})
    IN  {SubSeq(q, i, stop(i) - 1) : i \in starts}

\* url.path
UrlPath(h) ==
    LET rest == SubSeq(h, SchemeEnd(h) + 3, QueryAt(h) - 1)
    IN  SubSeq(rest, Len(Host(h)) + 1, Len(rest))

\* _maybe_sign_url: the urls that are signed.
NeedsSigning(h) ==
    /\ Host(h) # <<>>
    /\ EndsWith(Host(h), <<".">> \o BlobDomain)
    /\ Host(h) # PublicHost
    /\ QueryKeys(h) \cap {<<"s", "t">>, <<"s", "e">>, <<"s", "p">>} = {}

\* _sign: url.host.split(".")[0] and url.path.split("/", 2)[1]
AccountName(h) ==
    LET host == Host(h)
        dots == {i \in 1..Len(host) : host[i] = "."}
    IN  IF dots = {} THEN host ELSE SubSeq(host, 1, Min(dots) - 1)
ContainerName(h) ==
    LET rest == SubSeq(UrlPath(h), 2, Len(UrlPath(h)))
        slashes == {i \in 1..Len(rest) : rest[i] = "/"}
    IN  IF slashes = {} THEN rest ELSE SubSeq(rest, 1, Min(slashes) - 1)

\* sas_token_endpoint.joinpath(account_name, container_name)
TokenUrl(h) == <<AccountName(h), ContainerName(h)>>

\* _Token.ttl
Ttl(token) == token.expiry - now

FreshWhileValid(token) == Ttl(token) > 0

\* _get_token: the cached token is used.
Fresh(token) == ~(Ttl(token) < MinTtl)

CacheLockFreeAlways == TRUE

\* Lock.acquire returns only while nobody holds the lock.
CacheLockFree == cache_lock = 0

Signers == DOMAIN sign

\* The url a signing request ends with, the token in it.
SignedWith(r, token) ==
    [sign EXCEPT ![r].pc = "done", ![r].url = WithoutQuery(sign[r].href),
                 ![r].token = token.id]

\* open_url up to the first suspension of _maybe_sign_url: a url that is not
\* to be signed is opened as it is; otherwise the lock is awaited, and under
\* it the cached token is used, or a token is requested from the endpoint.
MaybeSign(r) ==
    /\ sign[r].pc = "start"
    /\ LET h == sign[r].href
           u == TokenUrl(h)
       IN  IF ~NeedsSigning(h)
           THEN /\ sign' = [sign EXCEPT ![r].pc = "done", ![r].url = h]
                /\ UNCHANGED <<cache_lock, sent>>
           ELSE /\ CacheLockFree
                /\ IF u \in DOMAIN cache /\ Fresh(cache[u])
                   THEN /\ sign' = SignedWith(r, cache[u])
                        /\ UNCHANGED <<cache_lock, sent>>
                   ELSE /\ sign' = [sign EXCEPT ![r].pc = "requesting"]
                        /\ cache_lock' = r
                        /\ sent' = Append(sent, [url |-> u, by |-> r,
                                                  status |-> "pending",
                                                  expiry |-> 0])
    /\ UNCHANGED <<now, cache>>
    /\ UNCHANGED <<vars, regVars>>

\* The endpoint's response arrives: raise_for_status or _Token.from_dict
\* raises, or the token is cached and the url signed with it.  The lock is
\* released either way.
Response(r) ==
    /\ sign[r].pc = "requesting"
    /\ LET n == Max({k \in DOMAIN sent : sent[k].by = r})
       IN  \/ /\ sign' = [sign EXCEPT ![r].pc = "failed"]
              /\ sent' = [sent EXCEPT ![n].status = "failed"]
              /\ cache' = cache
           \/ \E life \in Lifetimes :
                 LET token == [id |-> n, expiry |-> now + life]
                 IN  /\ cache' = (sent[n].url :> token) @@ cache
                     /\ sign' = SignedWith(r, token)
                     /\ sent' = [sent EXCEPT ![n].status = "ok",
                                              ![n].expiry = token.expiry]
    /\ cache_lock' = 0
    /\ UNCHANGED now
    /\ UNCHANGED <<vars, regVars>>

\* Time passes.
Tick ==
    /\ now < MaxNow
    /\ now' = now + TickSeconds
    /\ UNCHANGED <<cache, cache_lock, sign, sent>>
    /\ UNCHANGED <<vars, regVars>>

\* Concurrent open_url calls on one client with an empty cache.
InitToken ==
    /\ config = [warn |-> FALSE, fail_fast |-> FALSE, error_strategy |-> "DELETE",
                 clean |-> TRUE, overwrite |-> FALSE,
                 file_name_strategy |-> "FILE_NAME", include |-> {},
                 exclude |-> {}, alternate_assets |-> <<>>,
                 make_directory |-> TRUE]
    /\ call = [entry |-> "download_item", items |-> <<ItemOne>>,
               directory |-> Directory, keep_non_downloaded |-> FALSE,
               file_name |-> None, max_concurrent_downloads |-> MaxConcurrent]
    /\ pc = "gathering"
    /\ outcome = NoOutcome
    /\ owners = <<>>
    /\ downloads = <<>>
    /\ sem = 0
    /\ st = <<>>
    /\ written = <<>>
    /\ linked = <<>>
    /\ cancelReq = <<>>
    /\ gatherExc = 0
    /\ files = <<>>
    /\ opens = <<>>
    /\ warned = {}
    /\ messages = NoChannel
    /\ dirs = {}
    /\ RegistryIdle
    /\ now = 0
    /\ cache = <<>>
    /\ cache_lock = 0
    /\ sent = <<>>
    /\ sign \in [1..MaxSign -> [href : SignHrefs, pc : {"start"}, url : {None},
                                 token : {0}]]

NextToken ==
    \/ \E r \in Signers : MaybeSign(r)
    \/ \E r \in Signers : Response(r)
    \/ Tick

\* ------------------------------------------------------ specifications
Next ==
    \/ Construct
    \/ Add
    \/ StartDownload
    \/ \E i \in Tasks : Begin(i)
    \/ \E i \in Tasks : FailBeforeOpen(i)
    \/ \E i \in Tasks : Open(i)
    \/ \E i \in Tasks : WriteChunk(i)
    \/ \E i \in Tasks : Finish(i)
    \/ \E i \in Tasks : FailStream(i)
    \/ \E i \in Tasks : Cancelled(i)
    \/ Catch
    \/ Reraise
    \/ Collect

\* A batch; the registry is not looked into.
Spec == Init /\ [][Next]_<<vars, regVars, tokVars>>

\* A batch run by an event loop that keeps running what is ready, with
\* backends whose calls all end: a step that can be taken is not put off
\* forever.
SpecFair == InitFair /\ [][Next]_<<vars, regVars, tokVars>> /\ WF_<<vars, regVars, tokVars>>(Next)

\* The same, the batch reporting to a progress queue that nobody reads.
SpecQueue ==
    InitQueue /\ [][Next]_<<vars, regVars, tokVars>> /\ WF_<<vars, regVars, tokVars>>(Next)

\* Client.download_item, the entry point of the package's older interface.
SpecLegacy == InitLegacy /\ [][NextLegacy]_<<vars, regVars, tokVars>>

\* Concurrent requests to one registry; the batch is not looked into.
SpecRegistry == InitRegistry /\ [][NextRegistry]_<<vars, regVars, tokVars>>

\* Hrefs classified by the functions that guess a client class.
SpecClassify == InitRegistry /\ [][NextClassify]_<<vars, regVars, tokVars>>

\* Urls opened concurrently by one PlanetaryComputerClient.
SpecToken == InitToken /\ [][NextToken]_<<vars, regVars, tokVars>>

\* asset_exists for one asset.
SpecExists == InitExists /\ [][NextExists]_<<vars, regVars, tokVars>>

\* An entry point from the construction of its batch to the closing of the
\* registry, every task asking the registry for its client.
SpecTeardown == InitTeardown /\ [][NextTeardown]_<<vars, regVars, tokVars>>

\* ================================================================ claims
\* N of the batch.
Slots == call.max_concurrent_downloads

\* The keys of the asset mapping of owner o.
KeysOf(o) == {owners[o].assets[j].key : j \in 1..Len(owners[o].assets)}

\* The href of the asset of owner o under key k.
HrefOf(o, k) ==
    LET j == CHOOSE j \in 1..Len(owners[o].assets) : owners[o].assets[j].key = k
    IN  owners[o].assets[j].href

\* The href the caller gave the asset of download i.
GivenHref(i) ==
    LET assets == call.items[downloads[i].owner].assets
        j == CHOOSE j \in 1..Len(assets) : assets[j].key = downloads[i].key
    IN  assets[j].href

\* Downloads.download ran and ended.
Ran == pc = "done" /\ outcome.kind \in {"returned", "DownloadError", "exception"}

UniquePaths ==
    \A i, j \in 1..Len(downloads) : i # j => downloads[i].path # downloads[j].path

\* C1: in every state at most max_concurrent_downloads tasks are between the
\* semaphore's acquire and release, so at most that many backend open calls
\* are in flight.
C1_ConcurrencyBound ==
    Cardinality({i \in Tasks : Holding(st[i])}) <= Slots

\* C1 witness: every slot is taken by a task streaming from its backend while
\* another task waits for a slot.
C1_Witness ==
    /\ Slots >= 2
    /\ Cardinality({i \in Tasks : st[i] = "streaming"}) = Slots
    /\ \E i \in Tasks : st[i] = "waiting"

\* C2 (as claimed): no two registered downloads of a batch have the same
\* destination path, also when the batch is built from several owners.
C2_UniqueDestinations == UniquePaths

\* Two in-scope assets of the n-th item get the same file name.
SameFileNames(n) ==
    LET item == call.items[n]
        scoped == Scoped(item)
    IN  /\ ~CannotMakeAbsolute(item)
        /\ \E i, j \in 1..Len(scoped) : i # j /\ scoped[i].name = scoped[j].name

\* C3: when two in-scope assets of an added owner have equal file names, the
\* operation has raised AssetOverwriteError, and no task was created and no
\* backend open call made.
C3_CollisionRejected ==
    \A n \in 1..Len(owners) :
        SameFileNames(n) =>
            /\ pc = "done"
            /\ outcome.kind = "AssetOverwriteError"
            /\ st = <<>>
            /\ opens = <<>>

\* C3 witness: a collision under the KEY strategy was rejected.
C3_Witness ==
    /\ outcome.kind = "AssetOverwriteError"
    /\ config.file_name_strategy = "KEY"
    /\ SameFileNames(Len(owners))

\* C4: with fail_fast, a batch in which a download failed raises the exception
\* of the first task that failed, itself: no DownloadError, no normal return.
C4_FailFastRaisesOriginal ==
    (config.fail_fast /\ pc = "done" /\ \E i \in Tasks : st[i] \in {"raised", "failed"})
        => /\ outcome = [kind |-> "exception", task |-> gatherExc]
           /\ gatherExc \in Tasks
           /\ st[gatherExc] = "raised"

\* C4 witness: two tasks raised and the batch raised the exception of one.
C4_Witness ==
    /\ outcome.kind = "exception"
    /\ Cardinality({i \in Tasks : st[i] = "raised"}) >= 2

\* C5: with fail_fast, when the batch has re-raised the failure every task is
\* finished or cancelled, no cancellation is pending and every semaphore slot
\* is free, so no task can open a backend afterwards.
C5_FailFastSettled ==
    outcome.kind = "exception" =>
        /\ \A i \in Tasks : Done(st[i]) /\ ~cancelReq[i]
        /\ sem = Slots

\* C5 witness: the batch raised after a task was cancelled in mid-download and
\* another while still waiting for a slot.
C5_Witness ==
    /\ outcome.kind = "exception"
    /\ \E i, j \in Tasks :
        /\ st[i] = "cancelled" /\ opens[i] = 1
        /\ PathExists(downloads[i].path) /\ Len(files[downloads[i].path]) >= 1
        /\ st[j] = "cancelled" /\ opens[j] = 0

\* C6 (as claimed): with fail_fast and clean, after the batch has raised no
\* destination file remains of a task that was cancelled while downloading or
\* that failed.
C6_NoPartialFileAfterFailFast ==
    (config.fail_fast /\ config.clean /\ outcome.kind = "exception" /\ UniquePaths)
        => \A i \in Tasks :
            (st[i] \in {"cancelled", "raised"} /\ opens[i] > 0)
                => ~PathExists(downloads[i].path)

\* C7 (as claimed): without fail_fast, when the batch has returned or raised
\* every task has succeeded or failed, and every succeeded asset has its file
\* at its destination and its href rewritten to it.
C7_AllSettleSucceededKept ==
    (~config.fail_fast /\ Ran)
        => \A i \in Tasks :
            /\ st[i] \in {"succeeded", "failed"}
            /\ st[i] = "succeeded" =>
                /\ PathExists(downloads[i].path)
                /\ downloads[i].key \in KeysOf(downloads[i].owner)
                /\ HrefOf(downloads[i].owner, downloads[i].key) = downloads[i].path

\* C8: with warn and fail_fast both off, a batch with k >= 1 failed downloads
\* raises one DownloadError listing each failed download exactly once, one
\* with none returns, and DownloadError is only raised once every task is done.
C8_AggregateError ==
    /\ outcome.kind = "DownloadError" => \A i \in Tasks : Done(st[i])
    /\ (~config.warn /\ ~config.fail_fast /\ Ran) =>
        LET failed == {i \in Tasks : st[i] = "failed"}
        IN  /\ failed = {} => outcome.kind = "returned"
            /\ failed # {} =>
                /\ outcome.kind = "DownloadError"
                /\ Len(outcome.exceptions) = Cardinality(failed)
                /\ {outcome.exceptions[j] : j \in DOMAIN outcome.exceptions} = failed

\* C8 witness: DownloadError with two entries beside a succeeded download.
C8_Witness ==
    /\ outcome.kind = "DownloadError"
    /\ Len(outcome.exceptions) = 2
    /\ \E i \in Tasks : st[i] = "succeeded"

\* C9: with warn and the DELETE strategy the batch returns normally; every
\* failed download was warned about and its key is gone from its owner's
\* assets, and every succeeded download's key is still there.
C9_WarnDelete ==
    (config.warn /\ config.error_strategy = "DELETE" /\ Ran) =>
        /\ outcome.kind = "returned"
        /\ \A i \in Tasks :
            /\ st[i] = "failed" =>
                i \in warned /\ downloads[i].key \notin KeysOf(downloads[i].owner)
            /\ st[i] = "succeeded" => downloads[i].key \in KeysOf(downloads[i].owner)

\* C9 witness: an owner with a failed and a succeeded asset was returned.
C9_Witness ==
    /\ config.warn /\ config.error_strategy = "DELETE" /\ outcome.kind = "returned"
    /\ \E i, j \in Tasks :
        /\ downloads[i].owner = downloads[j].owner
        /\ st[i] = "failed" /\ st[j] = "succeeded"

Rejectable ==
    \/ config.include # {} /\ config.exclude # {}
    \/ config.warn /\ config.fail_fast

HasOldFile(i) ==
    PathExists(downloads[i].path) /\ files[downloads[i].path] = OldContent

\* C12: with overwrite off, a download whose destination file exists before
\* the batch makes no backend open call and, once it has run, has succeeded
\* with the asset's href set to the destination path; no step changes the
\* bytes of such a file.
C12_SkipExisting ==
    /\ [](~config.overwrite =>
            \A i \in Tasks :
                HasOldFile(i) =>
                    /\ opens[i] = 0
                    /\ st[i] \in {"waiting", "cancelled", "succeeded"}
                    /\ st[i] = "succeeded" =>
                        /\ downloads[i].key \in KeysOf(downloads[i].owner)
                        /\ HrefOf(downloads[i].owner, downloads[i].key) = downloads[i].path)
    /\ [][~config.overwrite =>
            \A p \in DOMAIN files :
                files[p] = OldContent => (p \in DOMAIN files' /\ files'[p] = OldContent)]_vars

\* C12 witness: one asset was skipped over its existing file while another
\* asset of the batch was fetched.
C12_Witness ==
    /\ ~config.overwrite /\ pc = "done"
    /\ \E i, j \in Tasks :
        /\ st[i] = "succeeded" /\ opens[i] = 0 /\ HasOldFile(i)
        /\ HrefOf(downloads[i].owner, downloads[i].key) = downloads[i].path
        /\ st[j] = "succeeded" /\ opens[j] = 1

C14_AbsoluteLocalHref ==
    \A i \in Tasks :
        st[i] = "succeeded" =>
            /\ downloads[i].key \in KeysOf(downloads[i].owner)
            /\ HrefOf(downloads[i].owner, downloads[i].key) = downloads[i].path
            /\ IsAbsoluteHref(downloads[i].path)

\* Everything the backend yields for download d, in order.
Source(d) == [k \in 1..NumChunks |-> Chunk(d, k)]

\* C15 (as claimed): the destination file of every download that was fetched
\* and succeeded holds exactly the chunks its backend yielded, in order.
C15_RoundTrip ==
    \A i \in Tasks :
        (st[i] = "succeeded" /\ opens[i] = 1) =>
            /\ PathExists(downloads[i].path)
            /\ files[downloads[i].path] = Source(downloads[i])

\* The href the claim expects download i to fetch: that of the first
\* configured name that is a key of the asset's alternates, else the asset's
\* own absolute href.
ExpectedHref(i) ==
    LET alternate == AssetOf(downloads[i]).alternate
        names == config.alternate_assets
        firsts == {j \in 1..Len(names) :
                      /\ names[j] \in DOMAIN alternate
                      /\ \A k \in 1..(j - 1) : names[k] \notin DOMAIN alternate}
    IN  IF firsts = {}
        THEN MakeAbsoluteHref(GivenHref(i), call.items[downloads[i].owner].self_href)
        ELSE alternate[names[CHOOSE j \in firsts : TRUE]].href

\* C16: every chunk in the file of a fetched download comes from the href of
\* the first configured alternate name the asset has, or from the asset's own
\* absolute href if it has none of them, and was yielded by the backend that
\* belongs to that href.
C16_AlternateSelected ==
    UniquePaths =>
        \A i \in Tasks :
            (st[i] = "succeeded" /\ opens[i] = 1) =>
                \A k \in 1..Len(files[downloads[i].path]) :
                    LET chunk == files[downloads[i].path][k]
                    IN  /\ chunk[2] = ExpectedHref(i)
                        /\ chunk[1] = ClientKind(ExpectedHref(i))

\* C16 witness: two configured names are both alternates of the asset; the
\* first one's href was fetched, by another backend than that of the declared
\* href.
C16_Witness ==
    /\ Len(config.alternate_assets) = 2
    /\ \E i \in Tasks :
        /\ st[i] = "succeeded" /\ opens[i] = 1
        /\ \A j \in 1..2 :
            config.alternate_assets[j] \in DOMAIN AssetOf(downloads[i]).alternate
        /\ files[downloads[i].path][1][2] = HrefHttps
        /\ files[downloads[i].path][1][1] = "HttpClient"
        /\ ClientKind(downloads[i].href) = "FilesystemClient"

\* A registered download whose selected alternate entry has no href.
SelectsMalformed(i) ==
    LET alternate == AssetOf(downloads[i]).alternate
        names == config.alternate_assets
    IN  \E j \in 1..Len(names) :
            /\ names[j] \in DOMAIN alternate
            /\ \A k \in 1..(j - 1) : names[k] \notin DOMAIN alternate
            /\ "href" \notin DOMAIN alternate[names[j]]

\* C17 (as claimed): when a registered download selects an alternate entry
\* without href, no task is ever created, and the batch ends neither with a
\* normal return (a warning) nor with the aggregate DownloadError.
C17_MalformedAlternateFatal ==
    (\E i \in 1..Len(downloads) : SelectsMalformed(i)) =>
        /\ st = <<>>
        /\ outcome.kind \notin {"returned", "DownloadError"}

\* The n-th owner has no self href when it is added and one of its assets,
\* in scope or not, has a relative href.
RelativeWithoutBase(n) ==
    /\ SelfHrefAtAdd(call.items[n]) = None
    /\ \E j \in 1..Len(call.items[n].assets) :
        ~IsAbsoluteHref(call.items[n].assets[j].href)

\* C18: when an owner without self href and with a relative asset href has
\* been added, the operation has raised STACError, and no task was created
\* and no backend opened.
C18_RelativeWithoutBase ==
    \A n \in 1..Len(owners) :
        RelativeWithoutBase(n) =>
            /\ pc = "done"
            /\ outcome.kind = "STACError"
            /\ st = <<>>
            /\ opens = <<>>

\* C18 witness: download_item of an item that never had a self href was
\* rejected although the filter leaves its relative asset out.
C18_Witness ==
    /\ outcome.kind = "STACError"
    /\ call.entry = "download_item"
    /\ call.items[1].self_href = None
    /\ config.exclude = {Kb}

\* The key passes the filter of the config.
Passes(k) ==
    /\ config.include # {} => k \in config.include
    /\ config.exclude # {} => k \notin config.exclude

\* The keys of the assets the caller gave the n-th item, all and in scope.
OriginalKeys(n) == {call.items[n].assets[j].key : j \in 1..Len(call.items[n].assets)}
InScopeKeys(n) == {k \in OriginalKeys(n) : Passes(k)}

\* Downloads.add returned for the n-th owner.
AddReturned(n) ==
    n < Len(owners) \/ outcome.kind \notin {"STACError", "AssetOverwriteError"}

\* The keys of the n-th owner whose download failed.
FailedKeys(n) == {downloads[i].key : i \in {j \in Tasks : downloads[j].owner = n /\ st[j] = "failed"}}

\* C19: for every owner add returned for, the downloads registered for it are
\* exactly its assets whose key passes the filter, one each and in mapping
\* order; when add has returned the owner's mapping holds the in-scope assets
\* only, or every original asset if keep_non_downloaded is set, and later
\* only assets whose download failed leave it.
C19_OnePerInScopeAsset ==
    \A n \in 1..Len(owners) :
        AddReturned(n) =>
            LET mine(d) == d.owner = n
                passes(a) == Passes(a.key)
                registered == SelectSeq(downloads, mine)
                inScope == SelectSeq(call.items[n].assets, passes)
                expected == IF call.keep_non_downloaded
                            THEN OriginalKeys(n) ELSE InScopeKeys(n)
            IN  /\ Len(registered) = Len(inScope)
                /\ \A j \in 1..Len(inScope) : registered[j].key = inScope[j].key
                /\ KeysOf(n) \subseteq expected
                /\ expected \ KeysOf(n) \subseteq FailedKeys(n)
                /\ pc = "adding" => KeysOf(n) = expected

\* C19 witness: with include set and keep_non_downloaded, one download was
\* registered and fetched for an owner that still has both its assets.
C19_Witness ==
    /\ call.keep_non_downloaded /\ config.include = {Ka}
    /\ outcome.kind = "returned"
    /\ Len(downloads) = 1 /\ st[1] = "succeeded"
    /\ Cardinality(KeysOf(1)) = 2

\* C20: however the requests interleave, the registry constructs at most one
\* instance of each backend class, and every request that returned got the
\* instance of the class of its href.
C20_OneInstancePerKind ==
    /\ \A m, n \in DOMAIN instances : instances[m] = instances[n] => m = n
    /\ \A r \in Requests :
        req[r].pc = "done" =>
            /\ req[r].client \in DOMAIN instances
            /\ instances[req[r].client] = ClientKind(req[r].href)

\* C20 witness: two requests for different hrefs of one class got the same
\* instance, and a third request got an instance of another class.
C20_Witness ==
    \E r1, r2, r3 \in Requests :
        /\ req[r1].href # req[r2].href
        /\ req[r1].pc = "done" /\ req[r2].pc = "done" /\ req[r3].pc = "done"
        /\ req[r1].client = req[r2].client
        /\ req[r3].client # req[r1].client

\* The closing of the registry has ended, by returning or by raising.
TornDown == teardown.pc \in {"closed", "raised"}

\* C21 (as claimed): when the closing of the registry has ended, close() was
\* called on every instance the registry constructed, also if a close()
\* raised.
C21_CloseAllClosesAll ==
    TornDown => \A n \in DOMAIN instances : closed[n] >= 1

\* C22 (as claimed): no instance is closed before the entry point has ended
\* and every task and request with it; no instance is closed twice; and when
\* the closing of the registry has ended, every instance constructed during
\* the batch was closed exactly once, whatever the outcome of the batch.
C22_ClosedOnceAtTeardown ==
    /\ \A n \in DOMAIN instances : closed[n] <= 1
    /\ teardown.pc = "open" => \A n \in DOMAIN instances : closed[n] = 0
    /\ teardown.pc # "open" => pc = "done"
    /\ pc = "done" => AllDone /\ Quiet
    /\ TornDown => \A n \in DOMAIN instances : closed[n] = 1

\* C23 (as claimed): whichever function classified an href (no override is
\* configured and no host is on an auth domain), the class is the one of the
\* first rule that applies: no host, filesystem; scheme s3, object storage;
\* host ending in the signed-storage domain, the signing backend; http or
\* https, plain HTTP; and for any other href an error, never a backend.
C23_ClassificationRules ==
    \A r \in Requests :
        req[r].pc \in {"guess_client", "guess_client_class_from_href"} =>
            LET h == req[r].href
            IN  req[r].client =
                    IF Host(h) = <<>> THEN "FilesystemClient"
                    ELSE IF Scheme(h) = <<"s", "3">> THEN "S3Client"
                    ELSE IF EndsWith(Host(h), BlobDomain) THEN "PlanetaryComputerClient"
                    ELSE IF Scheme(h) \in {<<"h", "t", "t", "p">>,
                                           <<"h", "t", "t", "p", "s">>}
                    THEN "HttpClient"
                    ELSE "ValueError"

\* C24: asset_exists never raises: once it has ended it has returned a
\* boolean, true exactly when assert_asset_exists completed and false when
\* it raised (no absolute href, no backend for the href, a backend that could
\* not be constructed, an existence check that raised); and no step of it
\* opens a backend stream or changes a file.
C24_AssetExistsNeverRaises ==
    /\ [](pc = "done" =>
            /\ outcome.kind = "returned"
            /\ outcome.value \in BOOLEAN
            /\ outcome.value <=> (outcome.assertion = "completed"))
    /\ [][files' = files /\ opens' = opens]_<<vars, regVars, tokVars>>

\* C24 witness: asset_exists returned false for an asset whose alternate
\* resolved to an s3 href, after the S3Client's existence check raised.
C24_Witness ==
    /\ pc = "done"
    /\ outcome = [kind |-> "returned", value |-> FALSE,
                  assertion |-> "ClientResponseError"]
    /\ req[1].href = HrefS3 /\ req[1].pc = "done"

\* C25: in what a task has put on the progress queue for its asset, every
\* open and chunk message comes after the start message, and a finish or
\* error message comes after the start message and is the last message: no
\* message of the asset follows it.  Tasks are not ordered among each other.
C25_MessageOrder ==
    \A i \in Tasks :
        LET ev == messages.put[i]
        IN  \A k \in 1..Len(ev) :
                /\ ev[k] \in {"OpenUrl", "WriteChunk", "FinishAssetDownload",
                              "ErrorAssetDownload"}
                       => \E j \in 1..(k - 1) : ev[j] = "StartAssetDownload"
                /\ ev[k] \in {"FinishAssetDownload", "ErrorAssetDownload"}
                       => k = Len(ev)

\* C25 witness: the batch has ended; one task put start, open, two chunks and
\* finish, another put start, open, one chunk and error.
C25_Witness ==
    /\ pc = "done"
    /\ \E i, j \in Tasks :
        /\ messages.put[i] = <<"StartAssetDownload", "OpenUrl", "WriteChunk",
                               "WriteChunk", "FinishAssetDownload">>
        /\ messages.put[j] = <<"StartAssetDownload", "OpenUrl", "WriteChunk",
                               "ErrorAssetDownload">>

C28_AggregateCarriesDownload ==
    outcome.kind = "DownloadError" =>
        \A j \in DOMAIN outcome.exceptions :
            LET i == outcome.exceptions[j]
                entry == Appended(i)
            IN  /\ DOMAIN entry = {"key", "href", "path", "error"}
                /\ entry.key = downloads[i].key
                /\ entry.href = downloads[i].href
                /\ entry.path = downloads[i].path

\* C29: once the semaphore exists, its free slots plus the tasks between
\* acquire and release are N; a step in which a task leaves the download
\* (returned, wrapped failure, raised failure, cancellation) frees exactly
\* its slot, a task cancelled while waiting for a slot, or one that acquires
\* and is done in the same step, leaves the count as it was; and when the
\* batch has ended all N slots are free.
C29_SlotsConserved ==
    /\ [](pc \notin {"new"} /\ outcome.kind # "ConfigError" =>
            /\ sem >= 0
            /\ sem + Cardinality({i \in Tasks : Holding(st[i])}) = Slots)
    /\ [](pc = "done" /\ outcome.kind # "ConfigError" => sem = Slots)
    /\ [][\A i \in Tasks :
            /\ (Holding(st[i]) /\ Done(st'[i])) => sem' = sem + 1
            /\ (st[i] = "waiting" /\ Done(st'[i])) => sem' = sem
            /\ (st[i] = "waiting" /\ Holding(st'[i])) => sem' = sem - 1]_<<vars, regVars, tokVars>>

\* C29 witness: a fail-fast batch of three tasks on two slots has raised: one
\* task raised, one was cancelled in mid-download, one was cancelled before
\* it opened anything, and both slots are free.
C29_Witness ==
    /\ pc = "done"
    /\ outcome.kind = "exception"
    /\ Slots = 2 /\ sem = 2
    /\ \E i, j, k \in Tasks :
        /\ st[i] = "raised"
        /\ st[j] = "cancelled" /\ opens[j] = 1
        /\ st[k] = "cancelled" /\ opens[k] = 0

\* C30: with at least one slot, backends whose calls all return or raise and
\* a fair event loop, every batch eventually ends, by returning or raising,
\* with every task done; for fail_fast on and off and for more tasks than
\* slots.
C30_BatchEnds == <>(pc = "done" /\ outcome.kind # "none" /\ AllDone)

\* C30 witness: three tasks on one slot, fail_fast off: the batch has ended
\* with every task done, two of them after a download and one failed.
C30_Witness ==
    /\ pc = "done"
    /\ outcome.kind = "DownloadError"
    /\ ~config.fail_fast
    /\ Slots = 1
    /\ Cardinality(Tasks) = 3
    /\ AllDone
    /\ Cardinality({i \in Tasks : st[i] = "succeeded" /\ opens[i] = 1}) = 2

\* C31: a task that is waiting, is not being cancelled and whose destination
\* exists with overwrite off can complete at once, whatever the number of
\* free slots: it does not wait for the semaphore.
C31_SkipNeedsNoSlot ==
    \A i \in Tasks :
        (st[i] = "waiting" /\ ~cancelReq[i] /\ ~MustDownload(downloads[i]))
            => ENABLED Begin(i)

C33_EntryChangesAfterOwnTask ==
    [][\A o \in DOMAIN owners :
        LET before == owners[o].assets
            after == owners'[o].assets
            own(k) == {i \in DOMAIN downloads' :
                          downloads'[i].owner = o /\ downloads'[i].key = k}
        IN  /\ \A b \in DOMAIN after :
                   \E a \in DOMAIN before : before[a].key = after[b].key
            /\ \A a \in DOMAIN before :
                   LET k == before[a].key
                       kept == {b \in DOMAIN after : after[b].key = k}
                   IN  IF kept = {}
                       THEN /\ AllDone
                            /\ \E i \in own(k) : st[i] = "failed"
                       ELSE \A b \in kept :
                               after[b].href # before[a].href =>
                                   \E i \in own(k) :
                                       /\ i \in DOMAIN st'
                                       /\ st'[i] = "succeeded"
                                       /\ i \in Tasks => st[i] # "succeeded"
                                       /\ after[b].href = downloads'[i].path
      ]_<<vars, regVars, tokVars>>

\* The token url of every signing request, None for a url that is not signed.
Signing ==
    [r \in Signers |-> IF NeedsSigning(sign[r].href) THEN TokenUrl(sign[r].href)
                       ELSE None]
SentFor(u) == {k \in DOMAIN sent : sent[k].url = u}
InFlight == {k \in DOMAIN sent : sent[k].status = "pending"}

C35_NoStaleToken ==
    [][\A r \in Signers :
        LET u == Signing[r]
        IN  /\ (sign[r].pc = "start" /\ sign'[r].pc = "done" /\ sign'[r].token # 0) =>
                   /\ cache_lock = 0
                   /\ u \in DOMAIN cache
                   /\ cache[u].id = sign'[r].token
                   /\ cache[u].expiry - now >= MinTtl
            /\ (sign[r].pc = "requesting" /\ sign'[r].pc = "done") =>
                   /\ cache_lock = r
                   /\ sent[sign'[r].token].by = r
                   /\ sign'[r].token \notin {sign[q].token : q \in Signers}
                   /\ cache'[u].id = sign'[r].token
            /\ (sign[r].pc = "start" /\ sign'[r].pc = "requesting") =>
                   /\ Len(sent') = Len(sent) + 1
                   /\ u \notin DOMAIN cache \/ cache[u].expiry - now < MinTtl
            /\ Len(sent') > Len(sent) => \E q \in Signers : sign'[q].pc = "requesting"
                                                          /\ sign[q].pc = "start"
      ]_<<vars, regVars, tokVars>>

C35_Witness ==
    \E u \in DOMAIN cache :
        /\ cache[u].id = 2
        /\ SentFor(u) = {1, 2}
        /\ sent[1].status = "ok"
        /\ sent[1].expiry - now < MinTtl
        /\ \E r, q \in Signers :
            /\ sign[r].pc = "done" /\ sign[r].token = 1
            /\ sign[q].pc = "done" /\ sign[q].token = 2

\* C36: a task that has started its download ends, whether or not the
\* progress queue has room for its messages.
C36_PutNeverStalls ==
    \A i \in 1..3 :
        (i \in Tasks /\ Holding(st[i])) ~> (i \in Tasks /\ Done(st[i]))

\* C37: when DownloadError has been raised under neither warn nor fail_fast,
\* every failed download is among its exceptions; with the DELETE strategy
\* the key of each is gone from its owner's assets, with KEEP the asset is
\* still there with the absolute form of the href it was given, not the
\* destination path.
C37_RaisedAfterStrategy ==
    (/\ ~config.warn /\ ~config.fail_fast
     /\ pc = "done" /\ outcome.kind = "DownloadError") =>
        /\ {outcome.exceptions[n] : n \in DOMAIN outcome.exceptions} = Wrapped
        /\ Wrapped # {}
        /\ \A i \in Wrapped :
            LET o == downloads[i].owner
                k == downloads[i].key
            IN  IF config.error_strategy = "DELETE"
                THEN k \notin KeysOf(o)
                ELSE /\ k \in KeysOf(o)
                     /\ HrefOf(o, k) = MakeAbsoluteHref(GivenHref(i),
                                                        call.items[o].self_href)
                     /\ HrefOf(o, k) # downloads[i].path
        /\ \A i \in Tasks \ Wrapped : downloads[i].key \in KeysOf(downloads[i].owner)

\* C37 witness: DownloadError under DELETE for an item of which one asset
\* failed after its backend was opened and another was downloaded.
C37_Witness ==
    /\ ~config.warn /\ ~config.fail_fast /\ config.error_strategy = "DELETE"
    /\ pc = "done" /\ outcome.kind = "DownloadError"
    /\ \E i, j \in Tasks :
        /\ downloads[i].owner = downloads[j].owner
        /\ st[i] = "failed" /\ opens[i] = 1
        /\ st[j] = "succeeded" /\ opens[j] = 1
        /\ KeysOf(downloads[i].owner) = {downloads[j].key}

C37_WitnessKeep ==
    /\ ~config.warn /\ ~config.fail_fast /\ config.error_strategy = "KEEP"
    /\ pc = "done" /\ outcome.kind = "DownloadError"
    /\ \E i \in Tasks : st[i] = "failed" /\ ~IsAbsoluteHref(GivenHref(i))

\* How often the message ev is among those task i has put.
Times(i, ev) == Cardinality({k \in DOMAIN messages.put[i] : messages.put[i][k] = ev})

\* The terminal messages task i has put.
Terminal(i) == Times(i, "FinishAssetDownload") + Times(i, "ErrorAssetDownload")

\* C38: a task puts at most one Start and at most one terminal message
\* (Finish or Error), the latter only after its Start; a task that ended
\* without being cancelled has put exactly one terminal message if it put a
\* Start, Finish if it succeeded and Error otherwise; a task that put Skip put
\* nothing else, and a task that skipped put it.  On a queue made without a
\* maximum size, every Start of a task is followed by its terminal message
\* unless the task is cancelled.
C38_StartThenOneTerminal ==
    /\ [](\A i \in Tasks :
            /\ Times(i, "StartAssetDownload") <= 1
            /\ Terminal(i) <= Times(i, "StartAssetDownload")
            /\ (Done(st[i]) /\ st[i] # "cancelled"
                    /\ Times(i, "StartAssetDownload") = 1) =>
                   /\ Terminal(i) = 1
                   /\ Times(i, "FinishAssetDownload") = 1 <=> st[i] = "succeeded"
            /\ Times(i, "SkipAssetDownload") > 0 =>
                   messages.put[i] = <<"SkipAssetDownload">>
            /\ (st[i] = "succeeded" /\ opens[i] = 0) =>
                   messages.put[i] = <<"SkipAssetDownload">>)
    /\ \A i \in 1..3 :
          (/\ messages.maxsize = 0
           /\ i \in Tasks /\ Times(i, "StartAssetDownload") = 1)
              ~> (i \in Tasks /\ (Terminal(i) = 1 \/ st[i] = "cancelled"))

\* C38 witness: of three tasks one skipped, one was downloaded and one failed
\* while streaming.
C38_Witness ==
    /\ messages.given /\ messages.maxsize = 0
    /\ pc = "done"
    /\ \E i, j, k \in Tasks :
        /\ messages.put[i] = <<"SkipAssetDownload">>
        /\ st[j] = "succeeded"
        /\ Times(j, "StartAssetDownload") = 1 /\ Times(j, "FinishAssetDownload") = 1
        /\ Times(j, "ErrorAssetDownload") = 0
        /\ st[k] = "failed"
        /\ Times(k, "StartAssetDownload") = 1 /\ Times(k, "ErrorAssetDownload") = 1
        /\ Times(k, "FinishAssetDownload") = 0

\* C39 (as claimed), for asset_exists: when it has returned or raised, every
\* backend instance constructed for it has been closed.
C39_InstancesClosedOnReturn ==
    (call.entry = "asset_exists" /\ pc = "done") =>
        \A n \in DOMAIN instances : closed[n] >= 1

\* C40: with overwrite, once a task has opened its destination the file no
\* longer has the contents it had before the batch: the open leaves it empty,
\* no later step brings the old contents back, and when the download fails
\* the file is left as written so far or, with clean, removed (unless the
\* removal fails).
C40_OverwriteLosesOldFile ==
    /\ [](\A i \in Tasks :
            (config.overwrite /\ opens[i] >= 1 /\ PathExists(downloads[i].path)) =>
                files[downloads[i].path] # OldContent)
    /\ [][/\ \A i \in Tasks :
              LET p == downloads[i].path
              IN  /\ (config.overwrite /\ st[i] = "opening" /\ st'[i] = "streaming") =>
                         files'[p] = <<>>
                  /\ (config.overwrite /\ st[i] = "streaming"
                          /\ st'[i] \in {"failed", "raised"}) =>
                         /\ p \in DOMAIN files' => files'[p] # OldContent
                         /\ config.clean => p \notin DOMAIN files' \/ files' = files
                         /\ ~config.clean => files' = files
          /\ \A p \in DOMAIN files' :
              files'[p] = OldContent => p \in DOMAIN files /\ files[p] = OldContent
         ]_<<vars, regVars, tokVars>>

\* C40 witness: download_item with overwrite and clean whose first asset, the
\* one a file may exist for, failed after its destination was opened; the
\* destination is gone.
C40_Witness ==
    /\ config.overwrite /\ config.clean
    /\ call.entry = "download_item"
    /\ \E i \in Tasks :
        /\ downloads[i].path = JoinPath(call.directory, Basename(HrefSF))
        /\ st[i] = "failed" /\ opens[i] = 1
        /\ ~PathExists(downloads[i].path)

====
